---- MODULE Spec2Model ----
(***************************************************************************)
(* Model of the GopherSnake MC relay (src/chat_server.go, the last of the  *)
(* three program texts in that file, lines 461-807): the websocket client  *)
(* registry with its broadcast, and the upstream connection manager.       *)
(*                                                                         *)
(* Processes.  One websocket handler goroutine per client h \in Handlers   *)
(* (handleConnections), and the upstream goroutines g \in Goroutines:      *)
(* goroutine 0 is main's `go connectMinecraft()`, goroutine c >= 1 is the  *)
(* `go handleMinecraftConnection(conn)` started for the c-th connection    *)
(* that was dialed; when its read loop ends the deferred function calls    *)
(* connectMinecraft() on that same goroutine.                              *)
(***************************************************************************)
EXTENDS Integers, Sequences, FiniteSets, TLC

\* ------------------------------------------------------------------ bounds
MaxClients == 2     \* websocket clients that ever connect
MaxConns   == 2     \* upstream connections that are ever dialed successfully
MaxMsgs    == 1     \* client messages read from all websockets together
MaxPkts    == 1     \* packets read from all upstream connections together
MaxKeys    == 2     \* calls of ecdsa.GenerateKey that are ever made
MaxBody    == 5     \* characters of a token string after its beginning
MaxFeed    == 2     \* packets read from the upstream connection in SpecFeed
MaxOut     == 3     \* characters the script prints on stdout

Handlers   == 1..MaxClients
Conns      == 1..MaxConns
Goroutines == 0..MaxConns
Nil        == 0      \* the nil *minecraft.Conn

\* ---------------------------------------------------------------- messages
\* type Message struct {Type, Message, Sender, Target}; an omitted JSON field
\* is the Go zero value "".
Message(type, message, sender, target) ==
    [Type |-> type, Message |-> message, Sender |-> sender, Target |-> target]

ZeroMessage == Message("", "", "", "")

\* The JSON objects a client may send (what ReadJSON decodes).
ClientInputs ==
    { Message("chat", "hi", "", ""),
      Message("chat", "hi", "", "all"),
      Message("chat", "hi", "", "Steve"),
      Message("ping", "hi", "", ""),
      Message("", "hi", "", "") }

\* config.Player.DisplayName (config.go default)
DisplayName == "GopherSnake"

\* packet.Text as built by sendChatToMinecraft
TextPacket(textType, sourceName, message, xuid) ==
    [TextType |-> textType, SourceName |-> sourceName,
     Message |-> message, XUID |-> xuid]

\* The packets the upstream may deliver to ReadPacket: two chat texts, a
\* system text, and a packet of another type (a disconnect notice).
UpstreamPackets ==
    { [Kind |-> "Text", TextType |-> "chat",   SourceName |-> "Steve", Message |-> "hello"],
      [Kind |-> "Text", TextType |-> "chat",   SourceName |-> "Alex",  Message |-> "bye"],
      [Kind |-> "Text", TextType |-> "system", SourceName |-> "",      Message |-> "joined"],
      [Kind |-> "Disconnect", TextType |-> "", SourceName |-> "",      Message |-> "kicked"] }

\* Faulty variant: the count taken before the new client was added.
WelcomeMsgBefore(clientCount) ==
    Message("info",
            "Welcome! Connected to GopherSnake MC. There are "
                \o ToString(clientCount - 1) \o " client(s) connected.",
            "", "")

\* fmt.Sprintf("Welcome! ... There are %d client(s) connected.", clientCount)
WelcomeMsg(clientCount) ==
    Message("info",
            "Welcome! Connected to GopherSnake MC. There are "
                \o ToString(clientCount) \o " client(s) connected.",
            "", "")

\* ---------------------------------------------------------- authentication
\* The relyingParties list of AuthenticateWithPythonXBL3, in its order.
relyingParties ==
    << "https://multiplayer.minecraft.net/",
       "http://xboxlive.com",
       "https://sisu.xboxlive.com/" >>

RelyingPartySet == {relyingParties[i] : i \in 1..Len(relyingParties)}

\* auth.XBLToken: AuthorizationToken.Token and
\* AuthorizationToken.DisplayClaims.UserInfo (a slice of {GamerTag, XUID, UserHash}).
XBLToken(token, userInfo) == [Token |-> token, UserInfo |-> userInfo]
UserInfo(userHash) == [UserHash |-> userHash]

\* A *T result is a sequence: <<>> is nil, <<v>> points to v.
NilPtr == <<>>
Ptr(v) == <<v>>

\* Errors.  NoErr is the nil error; a wrapped error (%w) keeps its cause.
NoErr == [msg |-> "", rp |-> ""]
Wrap(msg, cause) == [msg |-> msg, cause |-> cause]

\* What the identity provider answers. keyErr: ecdsa.GenerateKey fails;
\* liveErr: auth.RequestLiveToken fails; rp[r]: auth.RequestXBLToken for relying
\* party r fails, returns a token without user information, or returns a token
\* with it; chainErr: auth.RequestMinecraftChain fails.
Outcomes == {"error", "no user info", "token"}

AuthInputs ==
    [keyErr : BOOLEAN, liveErr : BOOLEAN,
     rp : [RelyingPartySet -> Outcomes], chainErr : BOOLEAN]

KeyError  == [msg |-> "key generation failed", rp |-> ""]
LiveError == [msg |-> "live token request failed", rp |-> ""]
ChainError == [msg |-> "chain request failed", rp |-> ""]
\* The error RequestXBLToken returns for relying party r.
ExchangeError(r) == [msg |-> "exchange failed", rp |-> r]
\* fmt.Errorf("XBL token missing user information")
MissingUserInfo == [msg |-> "XBL token missing user information", rp |-> ""]

\* auth.RequestXBLToken(ctx, liveToken, r): the token is scoped to r.
RequestXBLToken(in, r) ==
    CASE in.rp[r] = "error"        -> [token |-> NilPtr, err |-> ExchangeError(r)]
      [] in.rp[r] = "no user info" -> [token |-> Ptr(XBLToken(r, <<>>)), err |-> NoErr]
      [] in.rp[r] = "token"        -> [token |-> Ptr(XBLToken(r, <<UserInfo("uhs")>>)), err |-> NoErr]

\* Faulty variant: every call returns the same key.
GenerateKeySame(n) == 1

\* ecdsa.GenerateKey(curve, rand.Reader) after n keys were generated: a key
\* that no earlier call returned.
GenerateKey(n) == n + 1

\* auth.RequestMinecraftChain(ctx, xblToken, key): the chain is bound to the
\* token and the key it was requested with.
MinecraftChain(token, key) == [token |-> token, key |-> key]
NoChain == [token |-> NilPtr, key |-> 0]

\* What an authentication function returns, with the requests it made:
\* requests are the relying parties it called RequestXBLToken for, in order,
\* chainRequests the (token, key) pairs it called RequestMinecraftChain with.
AuthReturn(ok, err, xblToken, privateKey, chain, requests, chainRequests) ==
    [ok |-> ok, err |-> err, xblToken |-> xblToken, privateKey |-> privateKey,
     chain |-> chain, requests |-> requests, chainRequests |-> chainRequests]

AuthFail(err, requests, chainRequests) ==
    AuthReturn(FALSE, err, NilPtr, 0, NoChain, requests, chainRequests)

\* Faulty variant: a token without user information is accepted.
HasUserInfoAny(token) == TRUE

\* len(xblToken.AuthorizationToken.DisplayClaims.UserInfo) == 0 is the skip
\* condition of the relying-party loop.
HasUserInfo(token) == Len(token.UserInfo) # 0

\* Faulty variant: the first failure is kept as the cause.
NextLastErrFirst(lastErr, err) == IF lastErr = NoErr THEN err ELSE lastErr

\* lastErr = err
NextLastErr(lastErr, err) == err

\* The `for _, rp := range relyingParties` loop of AuthenticateWithPythonXBL3
\* from index i on.
RECURSIVE tryRelyingParties(_, _, _, _, _)
tryRelyingParties(in, key, i, lastErr, requests) ==
    IF i > Len(relyingParties)
    THEN AuthFail(Wrap("failed to get XBL token with any relying party", lastErr),
                  requests, <<>>)
    ELSE LET r    == relyingParties[i]
             x    == RequestXBLToken(in, r)
             reqs == Append(requests, r)
         IN IF x.err # NoErr
            THEN tryRelyingParties(in, key, i + 1, NextLastErr(lastErr, x.err), reqs)
            ELSE IF ~HasUserInfo(x.token[1])
            THEN tryRelyingParties(in, key, i + 1,
                                   NextLastErr(lastErr, MissingUserInfo), reqs)
            ELSE AuthReturn(TRUE, NoErr, x.token, key, NoChain, reqs, <<>>)

\* AuthenticateWithPythonXBL3() when n keys were generated before the call.
AuthenticateWithPythonXBL3(in, n) ==
    IF in.keyErr
    THEN AuthFail(Wrap("failed to generate ECDSA key", KeyError), <<>>, <<>>)
    ELSE IF in.liveErr
    THEN AuthFail(Wrap("failed to get Live token", LiveError), <<>>, <<>>)
    ELSE tryRelyingParties(in, GenerateKey(n), 1, NoErr, <<>>)

\* AuthenticateWithDeviceCode(clientID) when n keys were generated before the
\* call: the Minecraft relying party, on error the general Xbox Live one; a
\* token without user hash is logged as a warning and used.
AuthenticateWithDeviceCode(in, n) ==
    IF in.liveErr
    THEN AuthFail(Wrap("failed to get Live token", LiveError), <<>>, <<>>)
    ELSE IF in.keyErr
    THEN AuthFail(Wrap("failed to generate ECDSA key", KeyError), <<>>, <<>>)
    ELSE LET key   == GenerateKey(n)
             x1    == RequestXBLToken(in, relyingParties[1])
             x2    == RequestXBLToken(in, relyingParties[2])
             x     == IF x1.err # NoErr THEN x2 ELSE x1
             reqs  == IF x1.err # NoErr
                      THEN <<relyingParties[1], relyingParties[2]>>
                      ELSE <<relyingParties[1]>>
             creqs == <<[token |-> x.token, key |-> key]>>
         IN IF x.err # NoErr
            THEN AuthFail(Wrap("failed to get XBL token", x.err), reqs, <<>>)
            ELSE IF in.chainErr
            THEN AuthFail(Wrap("failed to get Minecraft chain", ChainError), reqs, creqs)
            ELSE AuthReturn(TRUE, NoErr, NilPtr, key,
                            MinecraftChain(x.token, key), reqs, creqs)


\* ------------------------------------------------- parseXBL3TokenToStruct
\* A Go string is the sequence of its characters.
WhiteSpace == {" ", "\t", "\n", "\r"}

XBL30      == <<"X", "B", "L", "3", ".", "0">>           \* "XBL3.0"
XBL30Space == <<"X", "B", "L", "3", ".", "0", " ">>      \* "XBL3.0 "
XEq        == <<"x", "=">>                               \* "x="

\* strings.TrimSpace
RECURSIVE TrimLeft(_)
TrimLeft(s) ==
    IF s # <<>> /\ Head(s) \in WhiteSpace THEN TrimLeft(Tail(s)) ELSE s

RECURSIVE TrimRight(_)
TrimRight(s) ==
    IF s # <<>> /\ s[Len(s)] \in WhiteSpace
    THEN TrimRight(SubSeq(s, 1, Len(s) - 1)) ELSE s

TrimSpace(s) == TrimRight(TrimLeft(s))

\* strings.HasPrefix, strings.TrimPrefix
HasPrefix(s, prefix) ==
    Len(s) >= Len(prefix) /\ SubSeq(s, 1, Len(prefix)) = prefix

TrimPrefix(s, prefix) ==
    IF HasPrefix(s, prefix) THEN SubSeq(s, Len(prefix) + 1, Len(s)) ELSE s

\* strings.Split(s, sep) for a one-character sep: the substrings between the
\* separators, one more than there are separators.
RECURSIVE Split(_, _)
Split(s, sep) ==
    IF \E i \in 1..Len(s) : s[i] = sep
    THEN LET i == CHOOSE k \in 1..Len(s) :
                     s[k] = sep /\ \A j \in 1..(k - 1) : s[j] # sep
         IN <<SubSeq(s, 1, i - 1)>> \o Split(SubSeq(s, i + 1, Len(s)), sep)
    ELSE <<s>>

\* The (token, error) pair parseXBL3TokenToStruct returns.
ParseFail(err) == [token |-> NilPtr, err |-> err]
ParseOk(token) == [token |-> Ptr(token), err |-> ""]

\* Faulty variant: the token part is not checked for being empty.
TokenPartErrorNone(xstsToken) == ""

\* if xstsToken == "" { return nil, fmt.Errorf("empty XSTS token value") }
TokenPartError(xstsToken) ==
    IF xstsToken = <<>> THEN "empty XSTS token value" ELSE ""

\* Faulty variant: the "x=" prefix is kept in the user hash.
UhsValueKeep(uhsPart) == uhsPart

\* uhsPart = strings.TrimPrefix(uhsPart, "x=")
UhsValue(uhsPart) == TrimPrefix(uhsPart, XEq)

parseXBL3TokenToStruct(tokenStr) ==
    LET str0  == TrimSpace(tokenStr)
        str1  == TrimPrefix(str0, XBL30Space)
        parts == Split(str1, ";")
    IN IF str0 = <<>> THEN ParseFail("empty token string")
       ELSE IF ~HasPrefix(str0, XBL30)
       THEN ParseFail("invalid token format: missing XBL3.0 prefix")
       ELSE IF Len(parts) # 2
       THEN ParseFail("unexpected XBL3.0 token format: should be 'XBL3.0 x=<uhs>;<token>'")
       ELSE IF ~HasPrefix(parts[1], XEq)
       THEN ParseFail("unexpected UHS format in token: missing 'x=' prefix")
       ELSE IF UhsValue(parts[1]) = <<>>
       THEN ParseFail("empty UHS value in token")
       ELSE IF TokenPartError(parts[2]) # ""
       THEN ParseFail(TokenPartError(parts[2]))
       ELSE ParseOk(XBLToken(parts[2], <<UserInfo(UhsValue(parts[1]))>>))

\* The token strings given to the parser: one of these beginnings followed by
\* up to MaxBody characters of the body alphabet.
Beginnings ==
    { XBL30Space,                                        \* "XBL3.0 "
      XBL30,                                             \* "XBL3.0"
      <<" ">> \o XBL30Space,                             \* " XBL3.0 "
      <<"X", "B", "L", "3", ".", "1", " ">>,             \* "XBL3.1 "
      <<>> }

BodyChars == {"x", "=", ";", "a", " "}

Bodies == UNION {[1..n -> BodyChars] : n \in 0..MaxBody}

TokenStrings == {b \o body : b \in Beginnings, body \in Bodies}

\* ------------------------------------------------------------------- state
VARIABLES
    clients,        \* the registry map: set of handlers whose ws is a key
    clientsMux,     \* holder of the registry mutex, or Free
    iterTodo,       \* range loop of the running broadcast: keys not yet visited
    iterCur,        \* range loop of the running broadcast: key being written (0: none)
    hpc,            \* position of each websocket handler
    hmsg,           \* the handler's local `msg`
    clientCount,    \* the handler's local `clientCount`
    closed,         \* ws.Close() has been called on the client's websocket
    net,            \* the client's side of the channel: "up", "slow", "down"
    wsLog,          \* per websocket: the WriteJSON calls made on it, with outcome
    nmsgs,          \* client messages read so far
    online,         \* config.MinecraftServer.OnlineMode
    gpc,            \* position of each upstream goroutine
    gconn,          \* the goroutine's local `conn`
    gmsg,           \* the message a reader goroutine is broadcasting
    nconn,          \* connections dialed so far (the last connection's id)
    connUp,         \* per upstream connection: the server side is still there
    connClosed,     \* the upstream connections on which Close() has been called
    minecraftConn,  \* the global session reference (Nil or a connection)
    upLog,          \* the WritePacket calls made on upstream connections
    npkts,          \* upstream packets read so far
    gpk,            \* the reader goroutine's local `pk` (the last packet read)
    pkLog,          \* per upstream connection: the packets ReadPacket returned, in order
    gkey,           \* connectMinecraft's local `key`
    gtoken,         \* connectMinecraft's local `xblToken`
    gchain,         \* connectMinecraft's local `chain`
    gts,            \* connectMinecraft's local dialer.TokenSource
    nkeys,          \* calls of ecdsa.GenerateKey so far
    dialLog,        \* the chains carried by the dials made with a tokenSourceWrapper
    fn,             \* the authentication function that was called ("": none yet)
    arg,            \* its argument, or what its collaborators answer
    ret,            \* what it returned
    exit            \* how the process ended ("": it is running)

regVars == <<clients, clientsMux, iterTodo, iterCur, closed, wsLog>>
wsVars  == <<hpc, hmsg, clientCount, net, nmsgs>>
authVars == <<gkey, gtoken, gchain, gts, nkeys, dialLog>>
mcVars  == <<online, gpc, gconn, gmsg, nconn, connUp, connClosed, minecraftConn, upLog, npkts, gpk, pkLog, authVars>>
callVars == <<fn, arg, ret>>
vars    == <<regVars, wsVars, mcVars, callVars, exit>>

Free  == <<>>
WS(h) == <<"ws", h>>     \* a websocket handler as mutex holder
MC(g) == <<"mc", g>>     \* an upstream goroutine as mutex holder

\* No packet was read yet.
NoPacket == [Kind |-> "", TextType |-> "", SourceName |-> "", Message |-> ""]

\* dialer.TokenSource: nil, gophertunnel's auth.TokenSource, or a
\* tokenSourceWrapper holding a chain.
NoTokenSource        == [kind |-> "nil", chain |-> NoChain]
BuiltinTokenSource   == [kind |-> "auth.TokenSource", chain |-> NoChain]
tokenSourceWrapper(chain) == [kind |-> "tokenSourceWrapper", chain |-> chain]

\* The state after main has started `go connectMinecraft()` and the HTTP
\* server, for a configuration with online_mode = mode.
InitRelay(mode) ==
    /\ clients = {}
    /\ clientsMux = Free
    /\ iterTodo = {}
    /\ iterCur = 0
    /\ hpc = [h \in Handlers |-> "new"]
    /\ hmsg = [h \in Handlers |-> ZeroMessage]
    /\ clientCount = [h \in Handlers |-> 0]
    /\ closed = [h \in Handlers |-> FALSE]
    /\ net = [h \in Handlers |-> "up"]
    /\ wsLog = [h \in Handlers |-> <<>>]
    /\ nmsgs = 0
    /\ online = mode
    /\ gpc = [g \in Goroutines |-> IF g = 0 THEN "dial" ELSE "idle"]
    /\ gconn = [g \in Goroutines |-> Nil]
    /\ gmsg = [g \in Goroutines |-> ZeroMessage]
    /\ nconn = 0
    /\ connUp = [c \in Conns |-> TRUE]
    /\ connClosed = {}
    /\ minecraftConn = Nil
    /\ upLog = <<>>
    /\ npkts = 0
    /\ gpk = [g \in Goroutines |-> NoPacket]
    /\ pkLog = [c \in Conns |-> <<>>]
    /\ gkey = [g \in Goroutines |-> Nil]
    /\ gtoken = [g \in Goroutines |-> NilPtr]
    /\ gchain = [g \in Goroutines |-> NoChain]
    /\ gts = [g \in Goroutines |-> NoTokenSource]
    /\ nkeys = 0
    /\ dialLog = <<>>
    /\ exit = ""

\* The relay as main starts it, for a configuration with online_mode = mode;
\* no authentication function is being called by itself.
InitWith(mode) ==
    /\ InitRelay(mode)
    /\ fn = ""
    /\ arg = <<>>
    /\ ret = <<>>

\* LoadConfig's default: config.MinecraftServer.OnlineMode = false.
DefaultOnlineMode == FALSE

Init == InitWith(DefaultOnlineMode)

\* ------------------------------------------------- the websocket channel
\* WriteJSON on a websocket returns an error when the websocket has been
\* closed locally or the peer is gone; it does not return while the peer does
\* not drain the channel.
WriteFails(c)  == closed[c] \/ net[c] = "down"
WriteBlocks(c) == ~closed[c] /\ net[c] = "slow"
\* ReadJSON returns an error when the websocket has been closed or the peer is gone.
ReadFails(c)   == closed[c] \/ net[c] = "down"

WriteRecord(msg, ok) == [msg |-> msg, ok |-> ok]

\* --------------------------------------------------- the registry map
\* Faulty variant: the key is not deleted.
DeleteClientNoop(m, c) == m

\* clients[ws] = true
AddClient(m, c) == m \cup {c}
\* delete(clients, ws)
DeleteClient(m, c) == m \ {c}
\* len(clients)
Count(m) == Cardinality(m)

\* ------------------------------------------------ broadcastToWebsocket
\* Faulty variant: the range loop starts without waiting for the mutex.
broadcastLockNoWait(p) ==
    /\ clientsMux' = p
    /\ iterTodo' = clients
    /\ IF clients = {} THEN iterCur' = 0 ELSE iterCur' \in clients
    /\ UNCHANGED <<clients, closed, wsLog>>

\* clientsMux.Lock(); the range loop starts over the keys present now.
broadcastLock(p) ==
    /\ clientsMux = Free
    /\ clientsMux' = p
    /\ iterTodo' = clients
    /\ IF clients = {} THEN iterCur' = 0 ELSE iterCur' \in clients
    /\ UNCHANGED <<clients, closed, wsLog>>

\* Faulty variant: the range loop returns at the first write error.
RangeRestBreak(todo, c, ok) == IF ok THEN todo \ {c} ELSE {}

\* The keys the range loop still visits after the body ran for c (the loop
\* body has no break or return).
RangeRest(todo, c, ok) == todo \ {c}

\* Faulty variant: the key of a failed write stays in the registry.
AfterWriteKeep(m, c, ok) == m

\* The registry after the loop body ran for c: on a write error the key is deleted.
AfterWrite(m, c, ok) == IF ok THEN m ELSE DeleteClient(m, c)

\* One iteration of the loop body: client.WriteJSON(msg); on error
\* client.Close() and delete(clients, client).  The range then moves on.
broadcastWrite(p, msg) ==
    /\ clientsMux = p
    /\ iterCur # 0
    /\ ~WriteBlocks(iterCur)
    /\ LET c  == iterCur
           ok == ~WriteFails(c)
       IN /\ wsLog' = [wsLog EXCEPT ![c] = Append(@, WriteRecord(msg, ok))]
          /\ closed' = [closed EXCEPT ![c] = @ \/ ~ok]
          /\ clients' = AfterWrite(clients, c, ok)
          /\ iterTodo' = RangeRest(iterTodo, c, ok)
          /\ IF iterTodo' = {} THEN iterCur' = 0 ELSE iterCur' \in iterTodo'
    /\ UNCHANGED clientsMux

\* End of the range loop: the deferred clientsMux.Unlock().
broadcastUnlock(p) ==
    /\ clientsMux = p
    /\ iterCur = 0
    /\ clientsMux' = Free
    /\ iterTodo' = {}
    /\ UNCHANGED <<iterCur, clients, closed, wsLog>>

\* ---------------------------------------------------- sendChatToMinecraft
\* The packet.Text built for (message, target).
sendChatPacket(message, target) ==
    TextPacket("chat", DisplayName, message, IF target # "" THEN target ELSE "")

\* WritePacket on an upstream connection fails when the server side is gone.
upWrite(conn, pkt) == [conn |-> conn, pkt |-> pkt, ok |-> connUp[conn]]

\* ------------------------------------------------------ handleConnections
\* upgrader.Upgrade succeeds: the websocket exists.
Upgrade(h) ==
    /\ hpc[h] = "new"
    /\ hpc' = [hpc EXCEPT ![h] = "register"]
    /\ UNCHANGED <<regVars, hmsg, clientCount, net, nmsgs, mcVars>>
    /\ UNCHANGED <<callVars, exit>>

\* upgrader.Upgrade fails: the handler returns, no websocket was created.
UpgradeFail(h) ==
    /\ hpc[h] = "new"
    /\ hpc' = [hpc EXCEPT ![h] = "rejected"]
    /\ UNCHANGED <<regVars, hmsg, clientCount, net, nmsgs, mcVars>>
    /\ UNCHANGED <<callVars, exit>>

\* Lock; clients[ws] = true; clientCount := len(clients); Unlock.
Register(h) ==
    /\ hpc[h] = "register"
    /\ clientsMux = Free
    /\ clients' = AddClient(clients, h)
    /\ clientCount' = [clientCount EXCEPT ![h] = Count(clients')]
    /\ hpc' = [hpc EXCEPT ![h] = "welcome"]
    /\ UNCHANGED <<clientsMux, iterTodo, iterCur, closed, wsLog, hmsg, net, nmsgs, mcVars>>
    /\ UNCHANGED <<callVars, exit>>

\* Where the handler goes after the welcome write: on an error it returns
\* (the deferred ws.Close() runs), otherwise it enters the read loop.
AfterWelcome(ok) == IF ok THEN "read" ELSE "done"

\* ws.WriteJSON(welcomeMsg), outside the mutex.
Welcome(h) ==
    /\ hpc[h] = "welcome"
    /\ ~WriteBlocks(h)
    /\ LET ok == ~WriteFails(h)
       IN /\ wsLog' = [wsLog EXCEPT ![h] = Append(@, WriteRecord(WelcomeMsg(clientCount[h]), ok))]
          /\ closed' = [closed EXCEPT ![h] = @ \/ ~ok]
          /\ hpc' = [hpc EXCEPT ![h] = AfterWelcome(ok)]
    /\ clientCount' = [clientCount EXCEPT ![h] = 0]     \* not read again
    /\ UNCHANGED <<clients, clientsMux, iterTodo, iterCur, hmsg, net, nmsgs, mcVars>>
    /\ UNCHANGED <<callVars, exit>>

\* Faulty variant: every message is forwarded.
DispatchAll(msg) == "send"

\* Where the handler goes after decoding msg: the switch on msg.Type.
Dispatch(msg) == IF msg.Type = "chat" THEN "send" ELSE "read"

\* ws.ReadJSON(&msg) returns a message.
ReadJSON(h) ==
    /\ hpc[h] = "read"
    /\ ~ReadFails(h)
    /\ nmsgs < MaxMsgs
    /\ \E m \in ClientInputs :
          /\ hmsg' = [hmsg EXCEPT ![h] = IF Dispatch(m) = "read" THEN ZeroMessage ELSE m]
          /\ hpc' = [hpc EXCEPT ![h] = Dispatch(m)]
    /\ nmsgs' = nmsgs + 1
    /\ UNCHANGED <<regVars, clientCount, net, mcVars>>
    /\ UNCHANGED <<callVars, exit>>

\* ws.ReadJSON(&msg) returns an error: the handler goes to unregister.
ReadError(h) ==
    /\ hpc[h] = "read"
    /\ ReadFails(h)
    /\ hpc' = [hpc EXCEPT ![h] = "unregister"]
    /\ UNCHANGED <<regVars, hmsg, clientCount, net, nmsgs, mcVars>>
    /\ UNCHANGED <<callVars, exit>>

\* Lock; delete(clients, ws); Unlock; break; the deferred ws.Close().
Unregister(h) ==
    /\ hpc[h] = "unregister"
    /\ clientsMux = Free
    /\ clients' = DeleteClient(clients, h)
    /\ closed' = [closed EXCEPT ![h] = TRUE]
    /\ hpc' = [hpc EXCEPT ![h] = "done"]
    /\ UNCHANGED <<clientsMux, iterTodo, iterCur, wsLog, hmsg, clientCount, net, nmsgs, mcVars>>
    /\ UNCHANGED <<callVars, exit>>

\* Faulty variant: with no session the handler skips the broadcast.
AfterNilCheckSkip(conn) == IF conn = Nil THEN "read" ELSE "write"

\* Where the handler goes after the nil check of sendChatToMinecraft: with no
\* session the call returns and the handler goes on to broadcastToWebsocket.
AfterNilCheck(conn) == IF conn = Nil THEN "echo" ELSE "write"

\* sendChatToMinecraft, the nil check.
SendChat(h) ==
    /\ hpc[h] = "send"
    /\ hpc' = [hpc EXCEPT ![h] = AfterNilCheck(minecraftConn)]
    /\ UNCHANGED <<regVars, hmsg, clientCount, net, nmsgs, mcVars>>
    /\ UNCHANGED <<callVars, exit>>

\* sendChatToMinecraft, minecraftConn.WritePacket(textPacket).
WritePacket(h) ==
    /\ hpc[h] = "write"
    /\ upLog' = Append(upLog, upWrite(minecraftConn,
                                      sendChatPacket(hmsg[h].Message, hmsg[h].Target)))
    /\ hpc' = [hpc EXCEPT ![h] = "echo"]
    /\ UNCHANGED <<regVars, hmsg, clientCount, net, nmsgs,
                   online, gpc, gconn, gmsg, nconn, connUp, connClosed, minecraftConn, npkts>>
    /\ UNCHANGED <<gpk, pkLog, authVars, callVars, exit>>

\* broadcastToWebsocket(msg) called by the handler: Lock.
EchoLock(h) ==
    /\ hpc[h] = "echo"
    /\ broadcastLock(WS(h))
    /\ hpc' = [hpc EXCEPT ![h] = "echo_range"]
    /\ UNCHANGED <<hmsg, clientCount, net, nmsgs, mcVars>>
    /\ UNCHANGED <<callVars, exit>>

EchoWrite(h) ==
    /\ hpc[h] = "echo_range"
    /\ broadcastWrite(WS(h), hmsg[h])
    /\ UNCHANGED <<wsVars, mcVars>>
    /\ UNCHANGED <<callVars, exit>>

EchoUnlock(h) ==
    /\ hpc[h] = "echo_range"
    /\ broadcastUnlock(WS(h))
    /\ hpc' = [hpc EXCEPT ![h] = "read"]
    /\ hmsg' = [hmsg EXCEPT ![h] = ZeroMessage]     \* `var msg Message` of the next iteration
    /\ UNCHANGED <<clientCount, net, nmsgs, mcVars>>
    /\ UNCHANGED <<callVars, exit>>

\* ------------------------------------------------ the websocket peers
\* The peer stops draining its channel, or goes away.  (A peer that drains
\* its channel again only delays the pending write, which every write step
\* already allows.)
Connected(h) == hpc[h] \notin {"new", "rejected", "done"}

PeerStalls(h) ==
    /\ Connected(h) /\ net[h] = "up"
    /\ net' = [net EXCEPT ![h] = "slow"]
    /\ UNCHANGED <<regVars, hpc, hmsg, clientCount, nmsgs, mcVars>>
    /\ UNCHANGED <<callVars, exit>>

PeerGone(h) ==
    /\ Connected(h) /\ net[h] # "down"
    /\ net' = [net EXCEPT ![h] = "down"]
    /\ UNCHANGED <<regVars, hpc, hmsg, clientCount, nmsgs, mcVars>>
    /\ UNCHANGED <<callVars, exit>>

\* ------------------------------------------------------- connectMinecraft
\* How the process has ended.
Running == ""

\* Faulty variant: the error is logged with log.Fatalf, which exits.
logFatalf(e) == "fatal"

\* logMinecraftErrorDiagnostics(err) only writes to the log (log.Printf,
\* log.Println): it returns, and the process is as it was.
logMinecraftErrorDiagnostics(e) == e

\* Faulty variant: a failed dial always goes to the sleep.
AfterDialErrorSleep(onl) == "sleep"

\* Where the loop goes after a failed first dial: in online mode the custom
\* authentication is tried, otherwise the loop sleeps and continues.
AfterDialError(onl) == IF onl THEN "altauth" ELSE "sleep"

\* The `dialer` of an iteration: in online mode its TokenSource is
\* auth.TokenSource, otherwise it is left nil.
DialerTokenSource(onl) == IF onl THEN BuiltinTokenSource ELSE NoTokenSource

\* The variables declared in the loop body (key, xblToken, chain, dialer) are
\* new in every iteration.
NextIteration(g) ==
    /\ gkey' = [gkey EXCEPT ![g] = Nil]
    /\ gtoken' = [gtoken EXCEPT ![g] = NilPtr]
    /\ gchain' = [gchain EXCEPT ![g] = NoChain]
    /\ gts' = [gts EXCEPT ![g] = NoTokenSource]

\* dialer.Dial("raknet", serverAddr) succeeds.
DialOk(g) ==
    /\ gpc[g] = "dial"
    /\ nconn < MaxConns
    /\ nconn' = nconn + 1
    /\ gconn' = [gconn EXCEPT ![g] = nconn + 1]
    /\ gts' = [gts EXCEPT ![g] = DialerTokenSource(online)]
    /\ gpc' = [gpc EXCEPT ![g] = "install"]
    /\ UNCHANGED <<regVars, wsVars, online, gmsg, connUp, connClosed, minecraftConn, upLog, npkts>>
    /\ UNCHANGED <<gpk, pkLog, gkey, gtoken, gchain, nkeys, dialLog, callVars, exit>>

\* dialer.Dial returns an error: logMinecraftErrorDiagnostics(err).
DialError(g) ==
    /\ gpc[g] = "dial"
    /\ gts' = [gts EXCEPT ![g] = DialerTokenSource(online)]
    /\ gpc' = [gpc EXCEPT ![g] = AfterDialError(online)]
    /\ exit' = logMinecraftErrorDiagnostics(exit)
    /\ UNCHANGED <<regVars, wsVars, online, gconn, gmsg, nconn, connUp, connClosed, minecraftConn, upLog, npkts>>
    /\ UNCHANGED <<gpk, pkLog, gkey, gtoken, gchain, nkeys, dialLog, callVars>>

\* xblToken, key, err := AuthenticateWithPythonXBL3(): a token and a key, or
\* an error.
AltAuth(g) ==
    /\ gpc[g] = "altauth"
    /\ nkeys < MaxKeys
    /\ \E r \in {AuthenticateWithPythonXBL3(in, nkeys) : in \in AuthInputs} :
          /\ gtoken' = [gtoken EXCEPT ![g] = r.xblToken]
          /\ gkey' = [gkey EXCEPT ![g] = r.privateKey]
          /\ gpc' = [gpc EXCEPT ![g] = IF r.ok THEN "chain" ELSE "sleep"]
    /\ nkeys' = nkeys + 1
    /\ UNCHANGED <<regVars, wsVars, online, gconn, gmsg, nconn, connUp, connClosed, minecraftConn, upLog, npkts>>
    /\ UNCHANGED <<gpk, pkLog, gchain, gts, dialLog, callVars, exit>>

\* chain, err := auth.RequestMinecraftChain(ctx, xblToken, key): a chain, and
\* then dialer.TokenSource = &tokenSourceWrapper{chain: chain}; or an error.
RequestChain(g) ==
    /\ gpc[g] = "chain"
    /\ \E ok \in BOOLEAN :
          IF ok
          THEN /\ gchain' = [gchain EXCEPT ![g] = MinecraftChain(gtoken[g], gkey[g])]
               /\ gts' = [gts EXCEPT ![g] = tokenSourceWrapper(gchain'[g])]
               /\ gpc' = [gpc EXCEPT ![g] = "redial"]
          ELSE /\ gpc' = [gpc EXCEPT ![g] = "sleep"]
               /\ UNCHANGED <<gchain, gts>>
    /\ UNCHANGED <<regVars, wsVars, online, gconn, gmsg, nconn, connUp, connClosed, minecraftConn, upLog, npkts>>
    /\ UNCHANGED <<gpk, pkLog, gkey, gtoken, nkeys, dialLog, callVars, exit>>

\* The second dialer.Dial, with the custom token source, succeeds.
RedialOk(g) ==
    /\ gpc[g] = "redial"
    /\ nconn < MaxConns
    /\ nconn' = nconn + 1
    /\ gconn' = [gconn EXCEPT ![g] = nconn + 1]
    /\ dialLog' = Append(dialLog, gts[g].chain)
    /\ gpc' = [gpc EXCEPT ![g] = "install"]
    /\ UNCHANGED <<regVars, wsVars, online, gmsg, connUp, connClosed, minecraftConn, upLog, npkts>>
    /\ UNCHANGED <<gpk, pkLog, gkey, gtoken, gchain, gts, nkeys, callVars, exit>>

\* The second dialer.Dial returns an error: logMinecraftErrorDiagnostics(err).
RedialError(g) ==
    /\ gpc[g] = "redial"
    /\ dialLog' = Append(dialLog, gts[g].chain)
    /\ gpc' = [gpc EXCEPT ![g] = "sleep"]
    /\ exit' = logMinecraftErrorDiagnostics(exit)
    /\ UNCHANGED <<regVars, wsVars, online, gconn, gmsg, nconn, connUp, connClosed, minecraftConn, upLog, npkts>>
    /\ UNCHANGED <<gpk, pkLog, gkey, gtoken, gchain, gts, nkeys, callVars>>

\* time.Sleep(10 * time.Second); continue.
Sleep(g) ==
    /\ gpc[g] = "sleep"
    /\ gpc' = [gpc EXCEPT ![g] = "dial"]
    /\ NextIteration(g)
    /\ UNCHANGED <<regVars, wsVars, online, gconn, gmsg, nconn, connUp, connClosed, minecraftConn, upLog, npkts>>
    /\ UNCHANGED <<gpk, pkLog, nkeys, dialLog, callVars, exit>>

\* Where the for loop of connectMinecraft goes after a successful connect:
\* the loop body ends without break or return, so the loop starts over.
AfterConnect == "dial"

\* minecraftConn = conn; go handleMinecraftConnection(conn).
Install(g) ==
    /\ gpc[g] = "install"
    /\ minecraftConn' = gconn[g]
    /\ gpc' = [gpc EXCEPT ![g] = AfterConnect, ![gconn[g]] = "read"]
    /\ gconn' = [gconn EXCEPT ![g] = Nil]     \* `conn, err :=` of the next iteration
    /\ NextIteration(g)
    /\ UNCHANGED <<regVars, wsVars, online, gmsg, nconn, connUp, connClosed, upLog, npkts>>
    /\ UNCHANGED <<gpk, pkLog, nkeys, dialLog, callVars, exit>>

\* ---------------------------------------------- handleMinecraftConnection
\* Faulty variant: every text packet is taken for chat.
IsChatAnyText(pk) == pk.Kind = "Text"

\* handleMinecraftChatMessage: only chat-type text is wrapped and broadcast.
IsChat(pk) == pk.Kind = "Text" /\ pk.TextType = "chat"

\* Faulty variant: the message built for an earlier packet is sent again.
ChatMessageStale(pk) == Message("chat", "hello", "Steve", "")

\* Faulty variant: the source name and the body change places.
ChatMessageSwapped(pk) == Message("chat", pk.SourceName, pk.Message, "")

ChatMessage(pk) == Message("chat", pk.Message, pk.SourceName, "")

\* conn.ReadPacket() returns a packet.  (How many packets the server sends is
\* bounded by each specification.)
ReadPacket(g) ==
    /\ gpc[g] = "read"
    /\ connUp[g]
    /\ npkts' = npkts + 1
    /\ \E pk \in UpstreamPackets :
          /\ gpk' = [gpk EXCEPT ![g] = pk]
          /\ pkLog' = [pkLog EXCEPT ![g] = Append(@, pk)]
          /\ IF IsChat(pk)
             THEN /\ gmsg' = [gmsg EXCEPT ![g] = ChatMessage(pk)]
                  /\ gpc' = [gpc EXCEPT ![g] = "bcast"]
             ELSE UNCHANGED <<gmsg, gpc>>
    /\ UNCHANGED <<regVars, wsVars, online, gconn, nconn, connUp, connClosed, minecraftConn, upLog>>
    /\ UNCHANGED <<authVars, callVars, exit>>

\* Faulty variant: the goroutine ends with its read loop.
AfterReadLoopEnd == "ended"

\* Where the goroutine goes when the read loop ends: the deferred function
\* logs and calls connectMinecraft().
AfterReadLoop == "dial"

\* conn.ReadPacket() returns an error: return, the deferred function runs.
ReadPacketError(g) ==
    /\ gpc[g] = "read"
    /\ ~connUp[g]
    /\ gpc' = [gpc EXCEPT ![g] = AfterReadLoop]
    /\ UNCHANGED <<regVars, wsVars, online, gconn, gmsg, nconn, connUp, connClosed, minecraftConn, upLog, npkts>>
    /\ UNCHANGED <<gpk, pkLog, authVars, callVars, exit>>

\* broadcastToWebsocket(msg) called by the upstream reader.
ChatLock(g) ==
    /\ gpc[g] = "bcast"
    /\ broadcastLock(MC(g))
    /\ gpc' = [gpc EXCEPT ![g] = "bcast_range"]
    /\ UNCHANGED <<wsVars, online, gconn, gmsg, nconn, connUp, connClosed, minecraftConn, upLog, npkts>>
    /\ UNCHANGED <<gpk, pkLog, authVars, callVars, exit>>

ChatWrite(g) ==
    /\ gpc[g] = "bcast_range"
    /\ broadcastWrite(MC(g), gmsg[g])
    /\ UNCHANGED <<wsVars, mcVars>>
    /\ UNCHANGED <<callVars, exit>>

ChatUnlock(g) ==
    /\ gpc[g] = "bcast_range"
    /\ broadcastUnlock(MC(g))
    /\ gpc' = [gpc EXCEPT ![g] = "read"]
    /\ gmsg' = [gmsg EXCEPT ![g] = ZeroMessage]     \* the call has returned
    /\ UNCHANGED <<wsVars, online, gconn, nconn, connUp, connClosed, minecraftConn, upLog, npkts>>
    /\ UNCHANGED <<gpk, pkLog, authVars, callVars, exit>>

\* The server side of an upstream connection goes away (network failure or
\* the server dropping the session).
ServerGone(c) ==
    /\ c <= nconn
    /\ connUp[c]
    /\ connUp' = [connUp EXCEPT ![c] = FALSE]
    /\ UNCHANGED <<regVars, wsVars, online, gpc, gconn, gmsg, nconn, connClosed, minecraftConn, upLog, npkts>>
    /\ UNCHANGED <<gpk, pkLog, authVars, callVars, exit>>

\* ------------------------------------------------------------ the program
\* The websocket side: every handler and every peer.
NextHandlers ==
    \/ \E h \in Handlers : Upgrade(h)
    \/ \E h \in Handlers : UpgradeFail(h)
    \/ \E h \in Handlers : Register(h)
    \/ \E h \in Handlers : Welcome(h)
    \/ \E h \in Handlers : ReadJSON(h)
    \/ \E h \in Handlers : ReadError(h)
    \/ \E h \in Handlers : Unregister(h)
    \/ \E h \in Handlers : SendChat(h)
    \/ \E h \in Handlers : WritePacket(h)
    \/ \E h \in Handlers : EchoLock(h)
    \/ \E h \in Handlers : EchoWrite(h)
    \/ \E h \in Handlers : EchoUnlock(h)
    \/ \E h \in Handlers : PeerStalls(h)
    \/ \E h \in Handlers : PeerGone(h)

\* The upstream side: every goroutine of the connection manager and the server.
NextUpstream ==
    \/ \E g \in Goroutines : DialOk(g)
    \/ \E g \in Goroutines : DialError(g)
    \/ \E g \in Goroutines : AltAuth(g)
    \/ \E g \in Goroutines : RequestChain(g)
    \/ \E g \in Goroutines : RedialOk(g)
    \/ \E g \in Goroutines : RedialError(g)
    \/ \E g \in Goroutines : Sleep(g)
    \/ \E g \in Goroutines : Install(g)
    \/ \E g \in Conns : (npkts < MaxPkts /\ ReadPacket(g))
    \/ \E g \in Conns : ReadPacketError(g)
    \/ \E g \in Conns : ChatLock(g)
    \/ \E g \in Conns : ChatWrite(g)
    \/ \E g \in Conns : ChatUnlock(g)
    \/ \E c \in Conns : ServerGone(c)

\* Spec: the relay as its websocket clients see it.  All clients and peers;
\* the server accepts the first dial and no other (a later Dial does not return).
Next ==
    \/ NextHandlers
    \/ \E g \in Goroutines : (nconn = 0 /\ DialOk(g))
    \/ \E g \in Goroutines : Install(g)
    \/ \E g \in Conns : (npkts < MaxPkts /\ ReadPacket(g))
    \/ \E g \in Conns : ReadPacketError(g)
    \/ \E g \in Conns : ChatLock(g)
    \/ \E g \in Conns : ChatWrite(g)
    \/ \E g \in Conns : ChatUnlock(g)
    \/ \E c \in Conns : ServerGone(c)

Spec == Init /\ [][Next]_vars

\* SpecLink: the upstream connection manager in full, in either mode, with one
\* websocket client whose peer stays up.  The identity provider answers the
\* first custom authentication and no other (a later one does not return).
LinkClients == {1}

InitLink ==
    \E mode \in BOOLEAN : InitWith(mode)

NextLink ==
    \/ \E g \in Goroutines : DialOk(g)
    \/ \E g \in Goroutines : DialError(g)
    \/ \E g \in Goroutines : (nkeys = 0 /\ AltAuth(g))
    \/ \E g \in Goroutines : RequestChain(g)
    \/ \E g \in Goroutines : RedialOk(g)
    \/ \E g \in Goroutines : RedialError(g)
    \/ \E g \in Goroutines : Sleep(g)
    \/ \E g \in Goroutines : Install(g)
    \/ \E g \in Conns : (npkts < MaxPkts /\ ReadPacket(g))
    \/ \E g \in Conns : ReadPacketError(g)
    \/ \E g \in Conns : ChatLock(g)
    \/ \E g \in Conns : ChatWrite(g)
    \/ \E g \in Conns : ChatUnlock(g)
    \/ \E c \in Conns : ServerGone(c)
    \/ \E h \in LinkClients : Upgrade(h)
    \/ \E h \in LinkClients : Register(h)
    \/ \E h \in LinkClients : Welcome(h)
    \/ \E h \in LinkClients : ReadJSON(h)
    \/ \E h \in LinkClients : SendChat(h)
    \/ \E h \in LinkClients : WritePacket(h)
    \/ \E h \in LinkClients : EchoLock(h)
    \/ \E h \in LinkClients : EchoWrite(h)
    \/ \E h \in LinkClients : EchoUnlock(h)

SpecLink == InitLink /\ [][NextLink]_vars

\* SpecManager: the upstream connection manager alone, in either mode, with
\* no websocket client.
InitManager == \E mode \in BOOLEAN : InitWith(mode)

\* With no client the registry stays empty and the range of a broadcast has
\* no key to visit.
NextManager ==
    \/ \E g \in Goroutines : DialOk(g)
    \/ \E g \in Goroutines : DialError(g)
    \/ \E g \in Goroutines : AltAuth(g)
    \/ \E g \in Goroutines : RequestChain(g)
    \/ \E g \in Goroutines : RedialOk(g)
    \/ \E g \in Goroutines : RedialError(g)
    \/ \E g \in Goroutines : Sleep(g)
    \/ \E g \in Goroutines : Install(g)
    \/ \E g \in Conns : (npkts < MaxPkts /\ ReadPacket(g))
    \/ \E g \in Conns : ReadPacketError(g)
    \/ \E g \in Conns : ChatLock(g)
    \/ \E g \in Conns : ChatUnlock(g)
    \/ \E c \in Conns : ServerGone(c)

SpecManager == InitManager /\ [][NextManager]_vars

\* SpecLive: the connection attempts of the manager with the scheduling of
\* the goroutines, in either mode.  The server sends no packet.  A goroutine
\* that can take a step of its own does take it: a call of Dial, of an
\* authentication function or of ReadPacket on a connection that is gone
\* returns, and a sleep ends.  Nothing is assumed about the server: it need
\* not accept a dial nor drop a connection.
NextLive ==
    \/ \E g \in Goroutines : DialOk(g)
    \/ \E g \in Goroutines : DialError(g)
    \/ \E g \in Goroutines : AltAuth(g)
    \/ \E g \in Goroutines : RequestChain(g)
    \/ \E g \in Goroutines : RedialOk(g)
    \/ \E g \in Goroutines : RedialError(g)
    \/ \E g \in Goroutines : Sleep(g)
    \/ \E g \in Goroutines : Install(g)
    \/ \E g \in Conns : ReadPacketError(g)
    \/ \E c \in Conns : ServerGone(c)

Fairness ==
    /\ \A g \in Goroutines :
          /\ WF_vars(DialOk(g) \/ DialError(g))
          /\ WF_vars(AltAuth(g))
          /\ WF_vars(RequestChain(g))
          /\ WF_vars(RedialOk(g) \/ RedialError(g))
          /\ WF_vars(Sleep(g))
          /\ WF_vars(Install(g))
    /\ \A g \in Conns : WF_vars(ReadPacketError(g))

SpecLive == InitManager /\ [][NextLive]_vars /\ Fairness

\* ------------------------------------------------------------------- main
\* The goroutine main starts for SIGINT and SIGTERM: <-sigCh; os.Exit(0).
\* The process ends as it is: no goroutine is told and nothing is closed.
Shutdown ==
    /\ exit = Running
    /\ exit' = "signal"
    /\ UNCHANGED <<regVars, wsVars, mcVars, callVars>>

\* http.ListenAndServe returns an error when the server cannot start
\* listening (no websocket handler has run): log.Fatal.
ServeError ==
    /\ exit = Running
    /\ \A h \in Handlers : hpc[h] = "new"
    /\ exit' = "startup error"
    /\ UNCHANGED <<regVars, wsVars, mcVars, callVars>>

\* SpecMain: the process with its end.  The connection manager in either
\* mode, where the server sends no packet and the identity provider answers
\* the first custom authentication, and one websocket client; a goroutine
\* takes a step only while the process runs.
NextMain ==
    \/ \E g \in Goroutines : (exit = Running /\ DialOk(g))
    \/ \E g \in Goroutines : (exit = Running /\ DialError(g))
    \/ \E g \in Goroutines : (exit = Running /\ nkeys = 0 /\ AltAuth(g))
    \/ \E g \in Goroutines : (exit = Running /\ RequestChain(g))
    \/ \E g \in Goroutines : (exit = Running /\ RedialOk(g))
    \/ \E g \in Goroutines : (exit = Running /\ RedialError(g))
    \/ \E g \in Goroutines : (exit = Running /\ Sleep(g))
    \/ \E g \in Goroutines : (exit = Running /\ Install(g))
    \/ \E g \in Conns : (exit = Running /\ ReadPacketError(g))
    \/ \E c \in Conns : (exit = Running /\ ServerGone(c))
    \/ \E h \in LinkClients : (exit = Running /\ Upgrade(h))
    \/ \E h \in LinkClients : (exit = Running /\ Register(h))
    \/ \E h \in LinkClients : (exit = Running /\ Welcome(h))
    \/ \E h \in LinkClients : (exit = Running /\ ReadJSON(h))
    \/ \E h \in LinkClients : (exit = Running /\ ReadError(h))
    \/ \E h \in LinkClients : (exit = Running /\ Unregister(h))
    \/ \E h \in LinkClients : (exit = Running /\ SendChat(h))
    \/ \E h \in LinkClients : (exit = Running /\ WritePacket(h))
    \/ \E h \in LinkClients : (exit = Running /\ EchoLock(h))
    \/ \E h \in LinkClients : (exit = Running /\ EchoWrite(h))
    \/ \E h \in LinkClients : (exit = Running /\ EchoUnlock(h))
    \/ \E h \in LinkClients : (exit = Running /\ PeerGone(h))
    \/ Shutdown
    \/ ServeError

SpecMain == InitManager /\ [][NextMain]_vars

\* SpecFeed: the relay of upstream chat to the websocket clients.  The server
\* accepts the first dial and no other, and sends up to MaxFeed packets; the
\* clients send nothing, and their peers may go away.
NextFeed ==
    \/ \E h \in Handlers : Upgrade(h)
    \/ \E h \in Handlers : Register(h)
    \/ \E h \in Handlers : Welcome(h)
    \/ \E h \in Handlers : PeerGone(h)
    \/ \E g \in Goroutines : (nconn = 0 /\ DialOk(g))
    \/ \E g \in Goroutines : Install(g)
    \/ \E g \in Conns : (npkts < MaxFeed /\ ReadPacket(g))
    \/ \E g \in Conns : ChatLock(g)
    \/ \E g \in Conns : ChatWrite(g)
    \/ \E g \in Conns : ChatUnlock(g)

SpecFeed == Init /\ [][NextFeed]_vars

\* -------------------------------------- WriteJSON as a call that takes time
\* A WriteJSON call on a websocket begins and returns later; between the two
\* the caller is inside the call.  The handler makes its welcome write after
\* it has released clientsMux; a broadcast makes its writes holding it.

\* ws.WriteJSON(welcomeMsg) is entered.
WelcomeBegin(h) ==
    /\ hpc[h] = "welcome"
    /\ hpc' = [hpc EXCEPT ![h] = "welcome_write"]
    /\ UNCHANGED <<regVars, hmsg, clientCount, net, nmsgs, mcVars>>
    /\ UNCHANGED <<callVars, exit>>

\* ws.WriteJSON(welcomeMsg) returns.
WelcomeEnd(h) ==
    /\ hpc[h] = "welcome_write"
    /\ ~WriteBlocks(h)
    /\ LET ok == ~WriteFails(h)
       IN /\ wsLog' = [wsLog EXCEPT ![h] = Append(@, WriteRecord(WelcomeMsg(clientCount[h]), ok))]
          /\ closed' = [closed EXCEPT ![h] = @ \/ ~ok]
          /\ hpc' = [hpc EXCEPT ![h] = AfterWelcome(ok)]
    /\ clientCount' = [clientCount EXCEPT ![h] = 0]     \* not read again
    /\ UNCHANGED <<clients, clientsMux, iterTodo, iterCur, hmsg, net, nmsgs, mcVars>>
    /\ UNCHANGED <<callVars, exit>>

\* client.WriteJSON(msg) of the handler's broadcast is entered.
EchoWriteBegin(h) ==
    /\ hpc[h] = "echo_range"
    /\ clientsMux = WS(h)
    /\ iterCur # 0
    /\ hpc' = [hpc EXCEPT ![h] = "echo_write"]
    /\ UNCHANGED <<regVars, hmsg, clientCount, net, nmsgs, mcVars>>
    /\ UNCHANGED <<callVars, exit>>

\* client.WriteJSON(msg) of the handler's broadcast returns; the rest of the
\* loop body runs.
EchoWriteEnd(h) ==
    /\ hpc[h] = "echo_write"
    /\ broadcastWrite(WS(h), hmsg[h])
    /\ hpc' = [hpc EXCEPT ![h] = "echo_range"]
    /\ UNCHANGED <<hmsg, clientCount, net, nmsgs, mcVars>>
    /\ UNCHANGED <<callVars, exit>>

\* client.WriteJSON(msg) of the upstream reader's broadcast is entered.
ChatWriteBegin(g) ==
    /\ gpc[g] = "bcast_range"
    /\ clientsMux = MC(g)
    /\ iterCur # 0
    /\ gpc' = [gpc EXCEPT ![g] = "bcast_write"]
    /\ UNCHANGED <<regVars, wsVars, online, gconn, gmsg, nconn, connUp, connClosed, minecraftConn, upLog, npkts>>
    /\ UNCHANGED <<gpk, pkLog, authVars, callVars, exit>>

\* client.WriteJSON(msg) of the upstream reader's broadcast returns.
ChatWriteEnd(g) ==
    /\ gpc[g] = "bcast_write"
    /\ broadcastWrite(MC(g), gmsg[g])
    /\ gpc' = [gpc EXCEPT ![g] = "bcast_range"]
    /\ UNCHANGED <<wsVars, online, gconn, gmsg, nconn, connUp, connClosed, minecraftConn, upLog, npkts>>
    /\ UNCHANGED <<gpk, pkLog, authVars, callVars, exit>>

\* The goroutines that are inside a WriteJSON call on websocket c.
Writers(c) ==
    {WS(h) : h \in {x \in Handlers : x = c /\ hpc[x] = "welcome_write"}}
    \cup {WS(h) : h \in {x \in Handlers : hpc[x] = "echo_write" /\ iterCur = c}}
    \cup {MC(g) : g \in {x \in Conns : gpc[x] = "bcast_write" /\ iterCur = c}}

\* Two WriteJSON calls on one websocket at a time are a data race on the
\* websocket's writer.  The calls may both return as they would have alone
\* (WelcomeEnd, EchoWriteEnd, ChatWriteEnd), or the library may notice the
\* second writer and panic, which ends the process.
ConcurrentWritePanic ==
    /\ exit = Running
    /\ \E c \in Handlers : Cardinality(Writers(c)) > 1
    /\ exit' = "panic"
    /\ UNCHANGED <<regVars, wsVars, mcVars, callVars>>

\* SpecWrite: the relay with the extent of its websocket writes.  The server
\* accepts the first dial and no other; the peers stay up; a goroutine takes
\* a step only while the process runs.
NextWrite ==
    \/ \E h \in Handlers : (exit = Running /\ Upgrade(h))
    \/ \E h \in Handlers : (exit = Running /\ Register(h))
    \/ \E h \in Handlers : (exit = Running /\ WelcomeBegin(h))
    \/ \E h \in Handlers : (exit = Running /\ WelcomeEnd(h))
    \/ \E h \in Handlers : (exit = Running /\ ReadJSON(h))
    \/ \E h \in Handlers : (exit = Running /\ SendChat(h))
    \/ \E h \in Handlers : (exit = Running /\ WritePacket(h))
    \/ \E h \in Handlers : (exit = Running /\ EchoLock(h))
    \/ \E h \in Handlers : (exit = Running /\ EchoWriteBegin(h))
    \/ \E h \in Handlers : (exit = Running /\ EchoWriteEnd(h))
    \/ \E h \in Handlers : (exit = Running /\ EchoUnlock(h))
    \/ \E g \in Goroutines : (exit = Running /\ nconn = 0 /\ DialOk(g))
    \/ \E g \in Goroutines : (exit = Running /\ Install(g))
    \/ \E g \in Conns : (exit = Running /\ npkts < MaxPkts /\ ReadPacket(g))
    \/ \E g \in Conns : (exit = Running /\ ChatLock(g))
    \/ \E g \in Conns : (exit = Running /\ ChatWriteBegin(g))
    \/ \E g \in Conns : (exit = Running /\ ChatWriteEnd(g))
    \/ \E g \in Conns : (exit = Running /\ ChatUnlock(g))
    \/ ConcurrentWritePanic

SpecWrite == Init /\ [][NextWrite]_vars

\* ------------------------------- sendChatToMinecraft, the command variant
\* The sender of the second program text of chat_server.go (lines 398-459):
\* the message goes out as a command request, and as a text packet when the
\* command request is rejected.

\* A packet written upstream by that sender: *packet.CommandRequest or
\* *packet.Text.
CommandRequest(commandLine) ==
    [Kind |-> "CommandRequest", CommandLine |-> commandLine, TextType |-> "",
     SourceName |-> "", Message |-> "", Parameters |-> <<>>]

FallbackText(textType, message, parameters) ==
    [Kind |-> "Text", CommandLine |-> "", TextType |-> textType,
     SourceName |-> "gophersnake", Message |-> message, Parameters |-> parameters]

\* target != "" && target != "all"
IsWhisper(target) == target # "" /\ target # "all"

\* fmt.Sprintf("/tell %s %s", target, message) for a whisper, else the message.
commandStr(message, target) ==
    IF IsWhisper(target) THEN "/tell " \o target \o " " \o message ELSE message

\* Faulty variant: the text packet is always of the chat subtype.
FallbackTextTypeChat(target) == "chat"

\* textPacket.TextType: packet.TextTypeChat, for a whisper packet.TextTypeWhisper.
FallbackTextType(target) == IF IsWhisper(target) THEN "whisper" ELSE "chat"

\* textPacket.Parameters: []string{}, for a whisper the target is appended.
FallbackParameters(target) == IF IsWhisper(target) THEN <<target>> ELSE <<>>

\* One WritePacket call of the sender and whether it returned no error.
SendWrite(pkt, ok) == [pkt |-> pkt, ok |-> ok]

\* What the sender may be called with: conn is minecraftConn; cmdErr and
\* textErr say whether WritePacket rejects the command request and the text
\* packet.
SendMessages == {"hi", "hello"}
SendTargets  == {"", "all", "Steve", "Alex"}

SendInputs ==
    [conn : {Nil, 1}, message : SendMessages, target : SendTargets,
     cmdErr : BOOLEAN, textErr : BOOLEAN]

\* sendChatToMinecraft(message, target): the WritePacket calls it makes on
\* minecraftConn, in order.
sendChatToMinecraft(in) ==
    LET cmdPacket  == CommandRequest(commandStr(in.message, in.target))
        textPacket == FallbackText(FallbackTextType(in.target), in.message,
                                   FallbackParameters(in.target))
    IN IF in.conn = Nil THEN <<>>
       ELSE IF ~in.cmdErr THEN <<SendWrite(cmdPacket, TRUE)>>
       ELSE <<SendWrite(cmdPacket, FALSE), SendWrite(textPacket, ~in.textErr)>>

\* ------------------------------------------- the authentication functions
\* A call of a function with the argument arg; the relay is not running.
CallAuthenticateWithPythonXBL3 ==
    /\ fn = ""
    /\ fn' = "AuthenticateWithPythonXBL3"
    /\ ret' = AuthenticateWithPythonXBL3(arg, nkeys)
    /\ UNCHANGED <<arg, regVars, wsVars, mcVars, exit>>

CallAuthenticateWithDeviceCode ==
    /\ fn = ""
    /\ fn' = "AuthenticateWithDeviceCode"
    /\ ret' = AuthenticateWithDeviceCode(arg, nkeys)
    /\ UNCHANGED <<arg, regVars, wsVars, mcVars, exit>>

CallParseXBL3TokenToStruct ==
    /\ fn = ""
    /\ fn' = "parseXBL3TokenToStruct"
    /\ ret' = parseXBL3TokenToStruct(arg)
    /\ UNCHANGED <<arg, regVars, wsVars, mcVars, exit>>

CallSendChatToMinecraft ==
    /\ fn = ""
    /\ fn' = "sendChatToMinecraft"
    /\ ret' = sendChatToMinecraft(arg)
    /\ UNCHANGED <<arg, regVars, wsVars, mcVars, exit>>

\* SpecAuth: one call of an authentication function of auth.go, for every
\* combination of answers of the identity provider.
InitAuth ==
    /\ InitRelay(DefaultOnlineMode)
    /\ fn = ""
    /\ arg \in AuthInputs
    /\ ret = <<>>

NextAuth ==
    \/ CallAuthenticateWithPythonXBL3
    \/ CallAuthenticateWithDeviceCode

SpecAuth == InitAuth /\ [][NextAuth]_vars

\* SpecParse: one call of parseXBL3TokenToStruct, for every token string.
InitParse ==
    /\ InitRelay(DefaultOnlineMode)
    /\ fn = ""
    /\ arg \in TokenStrings
    /\ ret = <<>>

NextParse == CallParseXBL3TokenToStruct

SpecParse == InitParse /\ [][NextParse]_vars

\* SpecSend: one call of the command variant of sendChatToMinecraft, for
\* every message, target, session and outcome of its writes.
InitSend ==
    /\ InitRelay(DefaultOnlineMode)
    /\ fn = ""
    /\ arg \in SendInputs
    /\ ret = <<>>

NextSend == CallSendChatToMinecraft

SpecSend == InitSend /\ [][NextSend]_vars

\* ------------------------------ the second program text (lines 181-460)
\* The relay as the second program text of chat_server.go has it:
\* connectMinecraft dials once and calls itself again after a sleep; the read
\* loop writes back what it read, and its deferred function closes the
\* connection, clears the session reference and reconnects; the handler has
\* no welcome and no echo and sends with the command variant of
\* sendChatToMinecraft.

\* The JSON objects a client may send to that handler.
EarlierInputs ==
    { Message("chat_message", "hi", "", ""),
      Message("chat_message", "hi", "", "Steve"),
      Message("chat", "hi", "", "") }

\* The packets the upstream may deliver to that read loop.
EarlierPackets ==
    UpstreamPackets \cup
    { [Kind |-> "Text", TextType |-> "whisper", SourceName |-> "Alex", Message |-> "psst"] }

\* WritePacket on an upstream connection fails when the connection has been
\* closed or the server side is gone.
earlierWrite(conn, pkt) ==
    [conn |-> conn, pkt |-> pkt, ok |-> connUp[conn] /\ conn \notin connClosed]

\* minecraftConn.WritePacket(pkt) while minecraftConn is nil: the call is made
\* through the nil reference.
nilWrite(pkt) == [conn |-> Nil, pkt |-> pkt, ok |-> FALSE]

\* Lock; clients[ws] = true; Unlock.  The handler enters its read loop.
EarlierRegister(h) ==
    /\ hpc[h] = "register"
    /\ clientsMux = Free
    /\ clients' = AddClient(clients, h)
    /\ hpc' = [hpc EXCEPT ![h] = "read"]
    /\ UNCHANGED <<clientsMux, iterTodo, iterCur, closed, wsLog, hmsg, clientCount, net, nmsgs, mcVars>>
    /\ UNCHANGED <<callVars, exit>>

\* if msg.Type == "chat_message" && minecraftConn != nil { sendChatToMinecraft }
EarlierDispatch(msg, conn) ==
    IF msg.Type = "chat_message" /\ conn # Nil THEN "send" ELSE "read"

\* ws.ReadJSON(&msg) returns a message; the handler's own test of minecraftConn.
EarlierReadJSON(h) ==
    /\ hpc[h] = "read"
    /\ ~ReadFails(h)
    /\ nmsgs < MaxMsgs
    /\ \E m \in EarlierInputs :
          /\ hmsg' = [hmsg EXCEPT ![h] = IF EarlierDispatch(m, minecraftConn) = "read"
                                         THEN ZeroMessage ELSE m]
          /\ hpc' = [hpc EXCEPT ![h] = EarlierDispatch(m, minecraftConn)]
    /\ nmsgs' = nmsgs + 1
    /\ UNCHANGED <<regVars, clientCount, net, mcVars>>
    /\ UNCHANGED <<callVars, exit>>

\* sendChatToMinecraft, the nil check (line 399).
EarlierSendChat(h) ==
    /\ hpc[h] = "send"
    /\ hpc' = [hpc EXCEPT ![h] = IF minecraftConn = Nil THEN "read" ELSE "cmd"]
    /\ hmsg' = [hmsg EXCEPT ![h] = IF minecraftConn = Nil THEN ZeroMessage ELSE @]
    /\ UNCHANGED <<regVars, clientCount, net, nmsgs, mcVars>>
    /\ UNCHANGED <<callVars, exit>>

\* sendChatToMinecraft, minecraftConn.WritePacket(cmdPacket) (line 433): the
\* session reference is read again.  Through a nil reference the call
\* panics: the handler's goroutine unwinds, its deferred ws.Close() runs and
\* the HTTP server recovers.  A rejected write goes on to the text packet.
CommandWrite(h) ==
    /\ hpc[h] = "cmd"
    /\ LET conn == minecraftConn
           pkt  == CommandRequest(commandStr(hmsg[h].Message, hmsg[h].Target))
           r    == IF conn = Nil THEN nilWrite(pkt) ELSE earlierWrite(conn, pkt)
       IN /\ upLog' = Append(upLog, r)
          /\ closed' = [closed EXCEPT ![h] = @ \/ conn = Nil]
          /\ hpc' = [hpc EXCEPT ![h] = IF conn = Nil THEN "done"
                                       ELSE IF r.ok THEN "read" ELSE "text"]
          /\ hmsg' = [hmsg EXCEPT ![h] = IF conn # Nil /\ r.ok THEN ZeroMessage ELSE @]
    /\ UNCHANGED <<clients, clientsMux, iterTodo, iterCur, wsLog, clientCount, net, nmsgs>>
    /\ UNCHANGED <<online, gpc, gconn, gmsg, nconn, connUp, connClosed, minecraftConn, npkts>>
    /\ UNCHANGED <<gpk, pkLog, authVars, callVars, exit>>

\* sendChatToMinecraft, minecraftConn.WritePacket(textPacket) (line 454): the
\* session reference is read once more.
TextWrite(h) ==
    /\ hpc[h] = "text"
    /\ LET conn == minecraftConn
           pkt  == FallbackText(FallbackTextType(hmsg[h].Target), hmsg[h].Message,
                                FallbackParameters(hmsg[h].Target))
           r    == IF conn = Nil THEN nilWrite(pkt) ELSE earlierWrite(conn, pkt)
       IN /\ upLog' = Append(upLog, r)
          /\ closed' = [closed EXCEPT ![h] = @ \/ conn = Nil]
          /\ hpc' = [hpc EXCEPT ![h] = IF conn = Nil THEN "done" ELSE "read"]
          /\ hmsg' = [hmsg EXCEPT ![h] = IF conn # Nil THEN ZeroMessage ELSE @]
    /\ UNCHANGED <<clients, clientsMux, iterTodo, iterCur, wsLog, clientCount, net, nmsgs>>
    /\ UNCHANGED <<online, gpc, gconn, gmsg, nconn, connUp, connClosed, minecraftConn, npkts>>
    /\ UNCHANGED <<gpk, pkLog, authVars, callVars, exit>>

\* connectMinecraft: dialer.Dial("raknet", serverAddr) succeeds.
EarlierDialOk(g) ==
    /\ gpc[g] = "dial"
    /\ nconn < MaxConns
    /\ nconn' = nconn + 1
    /\ gconn' = [gconn EXCEPT ![g] = nconn + 1]
    /\ gpc' = [gpc EXCEPT ![g] = "install"]
    /\ UNCHANGED <<regVars, wsVars, online, gmsg, connUp, connClosed, minecraftConn, upLog, npkts>>
    /\ UNCHANGED <<gpk, pkLog, authVars, callVars, exit>>

\* connectMinecraft: dialer.Dial returns an error, which is logged.
EarlierDialError(g) ==
    /\ gpc[g] = "dial"
    /\ gpc' = [gpc EXCEPT ![g] = "sleep"]
    /\ exit' = logMinecraftErrorDiagnostics(exit)
    /\ UNCHANGED <<regVars, wsVars, online, gconn, gmsg, nconn, connUp, connClosed, minecraftConn, upLog, npkts>>
    /\ UNCHANGED <<gpk, pkLog, authVars, callVars>>

\* time.Sleep(10 * time.Second); connectMinecraft(); return.
EarlierSleep(g) ==
    /\ gpc[g] = "sleep"
    /\ gpc' = [gpc EXCEPT ![g] = "dial"]
    /\ UNCHANGED <<regVars, wsVars, online, gconn, gmsg, nconn, connUp, connClosed, minecraftConn, upLog, npkts>>
    /\ UNCHANGED <<gpk, pkLog, authVars, callVars, exit>>

\* minecraftConn = conn; go handleMinecraftConnection(conn); connectMinecraft
\* returns and its goroutine ends.
EarlierInstall(g) ==
    /\ gpc[g] = "install"
    /\ minecraftConn' = gconn[g]
    /\ gpc' = [gpc EXCEPT ![g] = "ended", ![gconn[g]] = "read"]
    /\ gconn' = [gconn EXCEPT ![g] = Nil]
    /\ UNCHANGED <<regVars, wsVars, online, gmsg, nconn, connUp, connClosed, upLog, npkts>>
    /\ UNCHANGED <<gpk, pkLog, authVars, callVars, exit>>

\* handleMinecraftChatMessage: chat and whisper texts are wrapped and broadcast.
EarlierIsChat(pk) == pk.Kind = "Text" /\ pk.TextType \in {"chat", "whisper"}

EarlierChatMessage(pk) == Message("chat_message", pk.Message, pk.SourceName, "")

\* Where the read loop goes with the packet it read: a disconnect notice
\* ends the loop, a chat text is broadcast first, anything else goes
\* straight to conn.WritePacket(pk).
AfterEarlierRead(pk) ==
    IF pk.Kind = "Disconnect" THEN "close"
    ELSE IF EarlierIsChat(pk) THEN "bcast" ELSE "forward"

\* conn.ReadPacket() returns a packet.
EarlierReadPacket(g) ==
    /\ gpc[g] = "read"
    /\ connUp[g]
    /\ npkts' = npkts + 1
    /\ \E pk \in EarlierPackets :
          /\ gpk' = [gpk EXCEPT ![g] = pk]
          /\ pkLog' = [pkLog EXCEPT ![g] = Append(@, pk)]
          /\ gmsg' = [gmsg EXCEPT ![g] = IF AfterEarlierRead(pk) = "bcast"
                                         THEN EarlierChatMessage(pk) ELSE @]
          /\ gpc' = [gpc EXCEPT ![g] = AfterEarlierRead(pk)]
    /\ UNCHANGED <<regVars, wsVars, online, gconn, nconn, connUp, connClosed, minecraftConn, upLog>>
    /\ UNCHANGED <<authVars, callVars, exit>>

\* conn.ReadPacket() returns an error: return, the deferred function runs.
EarlierReadPacketError(g) ==
    /\ gpc[g] = "read"
    /\ ~connUp[g]
    /\ gpc' = [gpc EXCEPT ![g] = "close"]
    /\ UNCHANGED <<regVars, wsVars, online, gconn, gmsg, nconn, connUp, connClosed, minecraftConn, upLog, npkts>>
    /\ UNCHANGED <<gpk, pkLog, authVars, callVars, exit>>

\* The broadcast of handleMinecraftChatMessage has returned: the read loop
\* goes on to conn.WritePacket(pk).
EarlierChatUnlock(g) ==
    /\ gpc[g] = "bcast_range"
    /\ broadcastUnlock(MC(g))
    /\ gpc' = [gpc EXCEPT ![g] = "forward"]
    /\ gmsg' = [gmsg EXCEPT ![g] = ZeroMessage]
    /\ UNCHANGED <<wsVars, online, gconn, nconn, connUp, connClosed, minecraftConn, upLog, npkts>>
    /\ UNCHANGED <<gpk, pkLog, authVars, callVars, exit>>

\* conn.WritePacket(pk) (line 374): the packet just read is written to the
\* connection it came from; on an error the loop returns.
ForwardPacket(g) ==
    /\ gpc[g] = "forward"
    /\ LET r == earlierWrite(g, gpk[g])
       IN /\ upLog' = Append(upLog, r)
          /\ gpc' = [gpc EXCEPT ![g] = IF r.ok THEN "read" ELSE "close"]
    /\ UNCHANGED <<regVars, wsVars, online, gconn, gmsg, nconn, connUp, connClosed, minecraftConn, npkts>>
    /\ UNCHANGED <<gpk, pkLog, authVars, callVars, exit>>

\* The deferred function: conn.Close().
ConnClose(g) ==
    /\ gpc[g] = "close"
    /\ connClosed' = connClosed \cup {g}
    /\ gpc' = [gpc EXCEPT ![g] = "clear"]
    /\ UNCHANGED <<regVars, wsVars, online, gconn, gmsg, nconn, connUp, minecraftConn, upLog, npkts>>
    /\ UNCHANGED <<gpk, pkLog, authVars, callVars, exit>>

\* The deferred function: minecraftConn = nil.
ClearSession(g) ==
    /\ gpc[g] = "clear"
    /\ minecraftConn' = Nil
    /\ gpc' = [gpc EXCEPT ![g] = "resleep"]
    /\ UNCHANGED <<regVars, wsVars, online, gconn, gmsg, nconn, connUp, connClosed, upLog, npkts>>
    /\ UNCHANGED <<gpk, pkLog, authVars, callVars, exit>>

\* The deferred function: time.Sleep(5 * time.Second); connectMinecraft().
ReconnectSleep(g) ==
    /\ gpc[g] = "resleep"
    /\ gpc' = [gpc EXCEPT ![g] = "dial"]
    /\ UNCHANGED <<regVars, wsVars, online, gconn, gmsg, nconn, connUp, connClosed, minecraftConn, upLog, npkts>>
    /\ UNCHANGED <<gpk, pkLog, authVars, callVars, exit>>

\* SpecEarlier: the second program text with one websocket client.
NextEarlier ==
    \/ \E h \in LinkClients : Upgrade(h)
    \/ \E h \in LinkClients : EarlierRegister(h)
    \/ \E h \in LinkClients : EarlierReadJSON(h)
    \/ \E h \in LinkClients : ReadError(h)
    \/ \E h \in LinkClients : Unregister(h)
    \/ \E h \in LinkClients : EarlierSendChat(h)
    \/ \E h \in LinkClients : CommandWrite(h)
    \/ \E h \in LinkClients : TextWrite(h)
    \/ \E h \in LinkClients : PeerGone(h)
    \/ \E g \in Goroutines : EarlierDialOk(g)
    \/ \E g \in Goroutines : EarlierDialError(g)
    \/ \E g \in Goroutines : EarlierSleep(g)
    \/ \E g \in Goroutines : EarlierInstall(g)
    \/ \E g \in Conns : (npkts < MaxPkts /\ EarlierReadPacket(g))
    \/ \E g \in Conns : EarlierReadPacketError(g)
    \/ \E g \in Conns : ChatLock(g)
    \/ \E g \in Conns : ChatWrite(g)
    \/ \E g \in Conns : EarlierChatUnlock(g)
    \/ \E g \in Conns : ForwardPacket(g)
    \/ \E g \in Conns : ConnClose(g)
    \/ \E g \in Conns : ClearSession(g)
    \/ \E g \in Conns : ReconnectSleep(g)
    \/ \E c \in Conns : ServerGone(c)

SpecEarlier == Init /\ [][NextEarlier]_vars

\* ---------------------------------------------------------- GetXBL3Token
\* What running the script gives: runErr is the error of cmd.Run() (NoErr
\* when the script exits with status 0), stdout is what it printed.
ScriptChars == {" ", "\n", "X", "t"}

ScriptOutputs == UNION {[1..n -> ScriptChars] : n \in 0..MaxOut}

\* The error cmd.Run() returns when the script exits with another status.
ExitError == [msg |-> "exit status 1", rp |-> ""]

ScriptOutcomes == [runErr : {NoErr, ExitError}, stdout : ScriptOutputs]

\* The (token, error) pair GetXBL3Token returns.
TokenReturn(token, err) == [token |-> token, err |-> err]

\* GetXBL3Token(): the error of cmd.Run() is returned with an empty token;
\* an empty trimmed stdout is returned with `err`, the same variable, which
\* holds no error at that point; otherwise the trimmed stdout is the token.
GetXBL3Token(in) ==
    LET err   == in.runErr
        token == TrimSpace(in.stdout)
    IN IF err # NoErr THEN TokenReturn(<<>>, err)
       ELSE IF token = <<>> THEN TokenReturn(<<>>, err)
       ELSE TokenReturn(token, NoErr)

CallGetXBL3Token ==
    /\ fn = ""
    /\ fn' = "GetXBL3Token"
    /\ ret' = GetXBL3Token(arg)
    /\ UNCHANGED <<arg, regVars, wsVars, mcVars, exit>>

\* SpecScript: one call of GetXBL3Token, for every outcome of the script.
InitScript ==
    /\ InitRelay(DefaultOnlineMode)
    /\ fn = ""
    /\ arg \in ScriptOutcomes
    /\ ret = <<>>

NextScript == CallGetXBL3Token

SpecScript == InitScript /\ [][NextScript]_vars


\* ==================================================================
\* Properties
\* ==================================================================

\* The connections whose read loop (handleMinecraftConnection) is running.
ReadLoopPcs == {"read", "bcast", "bcast_range"}
ReadLoops == {c \in Conns : gpc[c] \in ReadLoopPcs}

\* A record of wsLog[c] that says msg was written to c successfully.
Delivered(c, msg) ==
    \E i \in 1..Len(wsLog[c]) : wsLog[c][i] = WriteRecord(msg, TRUE)

\* C1: at most one upstream connection has a running read loop at any time,
\* and a connection is dialed (a goroutine holds a fresh connection it is
\* about to install) only when no earlier connection's read loop is running.
C1_SingleSession ==
    /\ Cardinality(ReadLoops) <= 1
    /\ (\E g \in Goroutines : gpc[g] = "install") => ReadLoops = {}

\* C2: a goroutine reaches the first dial of an attempt only from the sleep
\* (or from a successful connect, or at start): never directly from a failed
\* dial or authentication step, nor from the end of a read loop.
C2_NoRetryWithoutDelay ==
    [][\A g \in Goroutines :
          (gpc'[g] = "dial" /\ gpc[g] # "dial") => gpc[g] \in {"sleep", "install"}]_vars

\* C3: while no upstream connection is connected (no read loop is running),
\* a call of sendChatToMinecraft returns at its check without going on to
\* WritePacket, and no WritePacket is made on any upstream connection.
C3_NoWriteWhenNotConnected ==
    [][ReadLoops = {} =>
          /\ upLog' = upLog
          /\ \A h \in Handlers : hpc[h] = "send" => hpc'[h] # "write"]_vars

\* A packet that carries a directed target.
Directed(pkt) == pkt.XUID # ""

\* C9: whenever sendChatToMinecraft writes, it writes one packet, and that
\* packet carries a directed target if and only if the message's target is
\* present and is not "all".
C9_DirectedIffTarget ==
    [][\A h \in Handlers :
          (hpc[h] = "write" /\ hpc'[h] = "echo") =>
             /\ Len(upLog') = Len(upLog) + 1
             /\ Directed(upLog'[Len(upLog')].pkt)
                   <=> (hmsg[h].Target # "" /\ hmsg[h].Target # "all")]_vars


\* A record of a write made by broadcastToWebsocket (the only other write on
\* a websocket is the handler's welcome message, of type "info").
BroadcastRecord(r) == r.msg.Type # "info"

\* The message the running broadcast is sending.
HolderMsg ==
    IF clientsMux[1] = "ws" THEN hmsg[clientsMux[2]] ELSE gmsg[clientsMux[2]]

\* C4: during a broadcast of msg, every registered handle the range has
\* already passed has been written msg successfully; so when the range is
\* over every handle still registered has received msg, whatever writes to
\* other handles failed in the pass.
C4_BroadcastReachesAll ==
    clientsMux # Free =>
        \A c \in clients \ iterTodo : Delivered(c, HolderMsg)

\* C4 witness: a pass is over in which the write to one handle failed and
\* the write of the same message to another handle succeeded.
C4_Witness ==
    /\ clientsMux # Free
    /\ iterCur = 0
    /\ \E c1 \in Handlers, c2 \in clients :
          /\ c1 # c2
          /\ \E i \in 1..Len(wsLog[c1]) : wsLog[c1][i] = WriteRecord(HolderMsg, FALSE)
          /\ Delivered(c2, HolderMsg)

\* C5: a handle on which a broadcast write failed is closed, is not in the
\* registry, and no broadcast write on it follows the failed one.
C5_FailedHandleEvicted ==
    \A c \in Handlers : \A i \in 1..Len(wsLog[c]) :
        (BroadcastRecord(wsLog[c][i]) /\ ~wsLog[c][i].ok) =>
            /\ c \notin clients
            /\ closed[c]
            /\ \A j \in (i+1)..Len(wsLog[c]) : ~BroadcastRecord(wsLog[c][j])

\* C5 witness: the broadcast of a message failed on c1 and reached c2, and a
\* later broadcast reached c2 and made no write on c1.
C5_Witness ==
    \E c1 \in Handlers, c2 \in clients :
        /\ c1 # c2
        /\ \E i \in 1..Len(wsLog[c2]), k \in 1..Len(wsLog[c1]) :
              /\ BroadcastRecord(wsLog[c1][k])
              /\ ~wsLog[c1][k].ok
              /\ wsLog[c2][i] = WriteRecord(wsLog[c1][k].msg, TRUE)
              /\ \E j \in (i+1)..Len(wsLog[c2]) :
                    /\ BroadcastRecord(wsLog[c2][j])
                    /\ wsLog[c2][j].ok
                    /\ wsLog[c2][j].msg # wsLog[c1][k].msg

\* The step is a broadcast's write on h, and the write failed.
FailedDelivery(h) ==
    /\ clientsMux # Free
    /\ iterCur = h
    /\ iterTodo' # iterTodo
    /\ ~wsLog'[h][Len(wsLog'[h])].ok

\* C6: registering increases the count by exactly one; unregistering after a
\* read error and a failed delivery each decrease it by exactly one; the
\* unregistration of a handle that is no longer registered changes nothing.
C6_CountAccounting ==
    [][\A h \in Handlers :
          /\ (hpc[h] = "register" /\ hpc'[h] = "welcome") =>
                (h \in clients' /\ Count(clients') = Count(clients) + 1)
          /\ (hpc[h] = "unregister" /\ hpc'[h] = "done") =>
                IF h \in clients
                THEN h \notin clients' /\ Count(clients') = Count(clients) - 1
                ELSE clients' = clients
          /\ FailedDelivery(h) =>
                (h \notin clients' /\ Count(clients') = Count(clients) - 1)]_vars

\* C6 witness: a handler that entered its read loop, was removed by a failed
\* delivery, and has then run its own unregistration.
C6_Witness ==
    \E h \in Handlers :
        /\ hpc[h] = "done"
        /\ h \notin clients
        /\ Len(wsLog[h]) >= 2
        /\ wsLog[h][1].ok
        /\ \E i \in 2..Len(wsLog[h]) : BroadcastRecord(wsLog[h][i]) /\ ~wsLog[h][i].ok
        /\ \E c \in clients : c # h

\* C7: while a broadcast's write on a handle is blocked, no other handle is
\* still waiting for that broadcast's message, and no registration,
\* unregistration or other broadcast is waiting for the mutex.
C7_SlowClientIsolation ==
    (clientsMux # Free /\ iterCur # 0 /\ WriteBlocks(iterCur)) =>
        /\ iterTodo \ {iterCur} = {}
        /\ \A h \in Handlers : hpc[h] \notin {"register", "unregister", "echo"}
        /\ \A g \in Conns : gpc[g] # "bcast"

\* C8: a handler that has terminated after registering has left no handle in
\* the registry, and no closed handle is registered.
C8_TerminatedNotRegistered ==
    \A h \in Handlers :
        /\ hpc[h] = "done" => h \notin clients
        /\ closed[h] => h \notin clients

\* The handler is processing the chat message hmsg[h].
InChat(h) == hpc[h] \in {"send", "write", "echo", "echo_range"}

\* C10: once a handler has received a chat message it goes on, whatever the
\* nil check and the upstream write do, to broadcastToWebsocket with that
\* same message; the range covers every registered handle, each of its
\* writes carries the message, and when it returns every handle still
\* registered, the sender included, has received the message.
C10_LocalEcho ==
    [][\A h \in Handlers :
          /\ (InChat(h) /\ hpc'[h] # "read") => hmsg'[h] = hmsg[h]
          /\ (hpc[h] = "send" /\ hpc'[h] # "send") => hpc'[h] \in {"write", "echo"}
          /\ (hpc[h] = "write" /\ hpc'[h] # "write") => hpc'[h] = "echo"
          /\ (hpc[h] = "echo" /\ hpc'[h] # "echo") =>
                (hpc'[h] = "echo_range" /\ clientsMux' = WS(h) /\ iterTodo' = clients)
          /\ (clientsMux = WS(h) /\ iterTodo' # iterTodo) =>
                wsLog'[iterCur][Len(wsLog'[iterCur])].msg = hmsg[h]
          /\ (hpc[h] = "echo_range" /\ hpc'[h] # "echo_range") =>
                /\ hpc'[h] = "read"
                /\ \A c \in clients : Delivered(c, hmsg[h])]_vars

\* C10 witness: with no upstream session, a handler's echo is over and both
\* the sender and another client have received the message.
C10_Witness ==
    \E h \in clients :
        /\ hpc[h] = "echo_range"
        /\ clientsMux = WS(h)
        /\ iterCur = 0
        /\ minecraftConn = Nil
        /\ Delivered(h, hmsg[h])
        /\ \E c \in clients \ {h} : Delivered(c, hmsg[h])

\* The message {type: "chat", sender: s, message: m} for the upstream event pk.
RelayedChat(pk) ==
    [Type |-> "chat", Message |-> pk.Message, Sender |-> pk.SourceName, Target |-> ""]

\* pk is a chat-type text event.
ChatEvent(pk) == pk.Kind = "Text" /\ pk.TextType = "chat"

AltPathPcs == {"altauth", "chain", "redial"}

\* C12: a failed dial is followed by the alternate authentication path in
\* online mode and by the sleep in offline mode; the path is entered only
\* from a failed dial in online mode and runs in its order (authentication,
\* chain request, second dial); in online mode the sleep is entered only
\* from a step of that path, in offline mode only from the failed dial.
C12_AuthFallback ==
    [][\A g \in Goroutines :
          /\ (gpc[g] = "dial" /\ gpc'[g] \notin {"dial", "install"}) =>
                gpc'[g] = (IF online THEN "altauth" ELSE "sleep")
          /\ (gpc'[g] = "altauth" /\ gpc[g] # "altauth") =>
                (online /\ gpc[g] = "dial")
          /\ (gpc[g] = "altauth" /\ gpc'[g] # "altauth") => gpc'[g] \in {"chain", "sleep"}
          /\ (gpc[g] = "chain" /\ gpc'[g] # "chain") => gpc'[g] \in {"redial", "sleep"}
          /\ (gpc[g] = "redial" /\ gpc'[g] # "redial") => gpc'[g] \in {"install", "sleep"}
          /\ (gpc'[g] \in {"chain", "redial"} /\ gpc[g] \notin AltPathPcs) => FALSE
          /\ (gpc'[g] = "sleep" /\ gpc[g] # "sleep") =>
                IF online THEN gpc[g] \in AltPathPcs ELSE gpc[g] = "dial"]_vars

\* C12 witness: in online mode a goroutine went through the whole alternate
\* path (its dialer carries the custom token source) and is now in the sleep.
C12_Witness ==
    /\ online
    /\ \E g \in Goroutines :
          gpc[g] = "sleep" /\ gts[g].kind = "tokenSourceWrapper"

\* C13: in online mode a connection is never established by a dial whose
\* dialer has no token source; a goroutine about to make the dial with the
\* custom token source carries the chain of this iteration, requested with
\* the token and the key of this iteration, and neither that chain nor its
\* key was carried by an earlier dial; no two dials carried the same chain
\* or chains of the same key, and no two attempts hold the same key.
C13_FreshCredentials ==
    /\ \A g \in Goroutines :
          (online /\ gpc[g] = "install") =>
             /\ gts[g].kind # "nil"
             /\ gts[g].kind = "tokenSourceWrapper" => gts[g].chain # NoChain
    /\ \A g \in Goroutines :
          gpc[g] = "redial" =>
             /\ gts[g].kind = "tokenSourceWrapper"
             /\ gts[g].chain = gchain[g]
             /\ gchain[g] # NoChain
             /\ gkey[g] # Nil
             /\ gchain[g].key = gkey[g]
             /\ gchain[g].token = gtoken[g]
             /\ \A i \in 1..Len(dialLog) :
                   dialLog[i] # gchain[g] /\ dialLog[i].key # gkey[g]
    /\ \A i, j \in 1..Len(dialLog) :
          i # j => (dialLog[i] # dialLog[j] /\ dialLog[i].key # dialLog[j].key)
    /\ \A g1, g2 \in Goroutines :
          (g1 # g2 /\ gkey[g1] # Nil) => gkey[g1] # gkey[g2]

\* C13 witness: two attempts have dialed with a chain of their own, and the
\* second of these dials has just connected.
C13_Witness ==
    /\ online
    /\ Len(dialLog) = 2
    /\ \E g \in Goroutines :
          /\ gpc[g] = "install"
          /\ gts[g].kind = "tokenSourceWrapper"
          /\ gts[g].chain = dialLog[2]

\* str is "XBL3.0 x=<hash>;<token>" with its one ';' at position i, and
\* <hash> and <token> are non-empty and hold no ';'.
WellFormedAt(str, i) ==
    /\ Len(str) > i
    /\ i > Len(XBL30Space \o XEq) + 1
    /\ SubSeq(str, 1, Len(XBL30Space \o XEq)) = XBL30Space \o XEq
    /\ \A k \in 1..Len(str) : (str[k] = ";") <=> (k = i)

HashOf(str, i)  == SubSeq(str, Len(XBL30Space \o XEq) + 1, i - 1)
TokenOf(str, i) == SubSeq(str, i + 1, Len(str))

\* The call returned a token object with user hash h and token value t.
ParsedAs(r, h, t) ==
    /\ r.err = ""
    /\ Len(r.token) = 1
    /\ r.token[1].Token = t
    /\ Len(r.token[1].UserInfo) = 1
    /\ r.token[1].UserInfo[1].UserHash = h

\* C14 as stated: every well-formed token string "XBL3.0 x=<hash>;<token>"
\* with non-empty <hash> and <token>, neither containing ';', is parsed
\* successfully into a token object with exactly that hash and that token.
C14_ParseWellFormed ==
    fn = "parseXBL3TokenToStruct" =>
        \A i \in 1..Len(arg) :
            WellFormedAt(arg, i) => ParsedAs(ret, HashOf(arg, i), TokenOf(arg, i))

\* C14 amended: the same for every well-formed token string that does not
\* end in white space (the parser first trims the white space around its
\* input, so white space at the end of <token> is not part of the token).
C14_ParseWellFormedTrimmed ==
    fn = "parseXBL3TokenToStruct" =>
        \A i \in 1..Len(arg) :
            (WellFormedAt(arg, i) /\ arg[Len(arg)] \notin WhiteSpace) =>
                ParsedAs(ret, HashOf(arg, i), TokenOf(arg, i))

\* C14 witness: "XBL3.0 x=a;a" was parsed into hash "a" and token "a".
C14_Witness ==
    /\ fn = "parseXBL3TokenToStruct"
    /\ arg = XBL30Space \o <<"x", "=", "a", ";", "a">>
    /\ WellFormedAt(arg, 11)
    /\ ParsedAs(ret, <<"a">>, <<"a">>)

\* str without the white space around it.
Stripped(str) ==
    LET inked == {k \in 1..Len(str) : str[k] \notin WhiteSpace}
    IN IF inked = {} THEN <<>>
       ELSE SubSeq(str, CHOOSE a \in inked : \A k \in inked : a <= k,
                        CHOOSE b \in inked : \A k \in inked : k <= b)

\* The positions of ';' in str.
Semicolons(str) == {k \in 1..Len(str) : str[k] = ";"}

\* What follows the scheme prefix "XBL3.0 " (or "XBL3.0") in str.
AfterScheme(str) ==
    IF Len(str) >= 7 /\ SubSeq(str, 1, 7) = XBL30Space THEN SubSeq(str, 8, Len(str))
    ELSE SubSeq(str, 7, Len(str))

\* str is one of the inputs the claim says are rejected: it does not start
\* with the scheme prefix, or does not hold exactly one ';', or its first
\* segment lacks "x=" or has an empty hash, or its token segment is empty.
Malformed(str) ==
    \/ Len(str) < 6
    \/ SubSeq(str, 1, 6) # XBL30
    \/ Cardinality(Semicolons(AfterScheme(str))) # 1
    \/ LET rest == AfterScheme(str)
           i    == CHOOSE k \in Semicolons(rest) : TRUE
       IN \/ i < 3
          \/ SubSeq(rest, 1, 2) # XEq
          \/ i = 3                       \* the first segment is "x="
          \/ i = Len(rest)               \* nothing follows the ';'

\* The call failed: an error and no token object.
Rejected(r) == r.err # "" /\ Len(r.token) = 0

\* C15 as stated: every input that does not start with the scheme prefix,
\* or does not contain exactly one ';' after it, or whose first segment lacks
\* "x=" or has an empty hash, or whose token segment is empty, is rejected
\* with an error and no token object.
C15_ParseRejectsMalformed ==
    fn = "parseXBL3TokenToStruct" => (Malformed(arg) => Rejected(ret))

\* C15 amended: the same for the input without the white space around it
\* (the parser trims it first, so " XBL3.0 x=a;a" is accepted).
C15_ParseRejectsMalformedTrimmed ==
    fn = "parseXBL3TokenToStruct" => (Malformed(Stripped(arg)) => Rejected(ret))

\* C15 witness: "XBL3.0 x=a;" (an empty token segment) was rejected.
C15_Witness ==
    /\ fn = "parseXBL3TokenToStruct"
    /\ arg = XBL30Space \o <<"x", "=", "a", ";">>
    /\ Malformed(Stripped(arg))
    /\ Rejected(ret)

\* The call of AuthenticateWithPythonXBL3 got as far as the relying parties.
BuilderRan ==
    fn = "AuthenticateWithPythonXBL3" /\ ~arg.keyErr /\ ~arg.liveErr

\* The candidates, by position in the list, whose exchange yields a token
\* with user-identity claims.
Winners ==
    {i \in 1..Len(relyingParties) : arg.rp[relyingParties[i]] = "token"}

\* C16: the relying parties contacted are the list, in its order, up to and
\* including the first candidate whose exchange yields a token with
\* user-identity claims; that candidate's token is returned, whatever the
\* earlier candidates answered, and no later candidate is contacted; with no
\* such candidate all of them were contacted, in order.
C16_FirstCandidateWins ==
    BuilderRan =>
        IF Winners # {}
        THEN LET w == CHOOSE i \in Winners : \A j \in Winners : i <= j
             IN /\ ret.ok
                /\ Len(ret.xblToken) = 1
                /\ ret.xblToken[1].Token = relyingParties[w]
                /\ Len(ret.xblToken[1].UserInfo) > 0
                /\ ret.requests = SubSeq(relyingParties, 1, w)
        ELSE /\ ~ret.ok
             /\ ret.requests = relyingParties

\* C16 witness: the first candidate failed, the second returned a token
\* without identity claims, and the third candidate's token was returned.
C16_Witness ==
    /\ BuilderRan
    /\ arg.rp[relyingParties[1]] = "error"
    /\ arg.rp[relyingParties[2]] = "no user info"
    /\ ret.ok
    /\ ret.xblToken[1].Token = relyingParties[3]
    /\ ret.requests = relyingParties

\* C17: an authentication function never requests a credential chain with a
\* token whose user-identity claims are empty.
C17_NoChainForEmptyIdentity ==
    fn # "" =>
        \A i \in 1..Len(ret.chainRequests) :
            /\ Len(ret.chainRequests[i].token) = 1
            /\ Len(ret.chainRequests[i].token[1].UserInfo) > 0

\* The failure of the candidate at position i of the list.
CandidateFailure(i) ==
    IF arg.rp[relyingParties[i]] = "error"
    THEN ExchangeError(relyingParties[i])
    ELSE MissingUserInfo

\* C18: when every candidate fails, the builder returns no token and no key,
\* and an error whose cause is the failure of the last candidate of the list.
C18_LastCauseKept ==
    (BuilderRan /\ Winners = {}) =>
        /\ ~ret.ok
        /\ Len(ret.xblToken) = 0
        /\ ret.privateKey = 0
        /\ ret.err.cause = CandidateFailure(Len(relyingParties))

\* C18 witness: the first candidate returned a token without identity
\* claims, the last one failed in the exchange, and that exchange error is
\* the cause.
C18_Witness ==
    /\ BuilderRan
    /\ arg.rp[relyingParties[1]] = "no user info"
    /\ arg.rp[relyingParties[3]] = "error"
    /\ ~ret.ok
    /\ ret.err.cause = ExchangeError(relyingParties[3])

\* msg is an info message that states the client count n.
StatesCount(msg, n) ==
    /\ msg.Type = "info"
    /\ msg.Message = "Welcome! Connected to GopherSnake MC. There are "
                        \o ToString(n) \o " client(s) connected."

\* The positions of the info messages written to c.
InfoRecords(c) == {i \in 1..Len(wsLog[c]) : wsLog[c][i].msg.Type = "info"}

\* C19: the registration step writes to no client and takes the count of the
\* registry with the new client in it (at least 1); the welcome step writes
\* one info message stating that count to the new client and nothing to any
\* other client; a client is written at most one info message, and exactly
\* one once its welcome step is over.
C19_WelcomeOnlyNewClient ==
    /\ [](\A c \in Handlers :
            /\ Cardinality(InfoRecords(c)) <= 1
            /\ hpc[c] \in {"new", "rejected", "register", "welcome"} => InfoRecords(c) = {}
            /\ hpc[c] \notin {"new", "rejected", "register", "welcome"} =>
                  Cardinality(InfoRecords(c)) = 1)
    /\ [][\A h \in Handlers :
            /\ (hpc[h] = "register" /\ hpc'[h] = "welcome") =>
                  /\ wsLog' = wsLog
                  /\ h \in clients'
                  /\ clientCount'[h] = Cardinality(clients')
                  /\ clientCount'[h] >= 1
            /\ (hpc[h] = "welcome" /\ hpc'[h] # "welcome") =>
                  /\ \A c \in Handlers \ {h} : wsLog'[c] = wsLog[c]
                  /\ Len(wsLog'[h]) = Len(wsLog[h]) + 1
                  /\ SubSeq(wsLog'[h], 1, Len(wsLog[h])) = wsLog[h]
                  /\ StatesCount(wsLog'[h][Len(wsLog'[h])].msg, clientCount[h])]_vars

\* C19 witness: the second client to register was told of 2 clients, and the
\* first client, told of 1, was written nothing else.
C19_Witness ==
    \E h1, h2 \in Handlers :
        /\ h1 # h2
        /\ hpc[h1] = "read" /\ hpc[h2] = "read"
        /\ Len(wsLog[h1]) = 1
        /\ StatesCount(wsLog[h1][1].msg, 1) /\ wsLog[h1][1].ok
        /\ Len(wsLog[h2]) = 1
        /\ StatesCount(wsLog[h2][1].msg, 2) /\ wsLog[h2][1].ok

\* C20: the step in which a reader receives a disconnect notice takes that
\* reader out of its read loop to the backoff delay (from which the next
\* connection attempt starts), and the connection is no longer the session
\* that chat is sent on.
C20_DisconnectLeavesConnected ==
    [][\A g \in Conns :
          (gpc[g] = "read" /\ npkts' # npkts /\ gpk'[g] # gpk[g]
              /\ gpk'[g].Kind = "Disconnect")
             => (gpc'[g] = "sleep" /\ minecraftConn' # g)]_vars

\* The packet the step has read from connection g (the step is a ReadPacket
\* of g that returned a packet).
ReadsPacket(g) == Len(pkLog'[g]) = Len(pkLog[g]) + 1
PacketRead(g) == pkLog'[g][Len(pkLog'[g])]

\* C21: the step in which a reader receives a packet that is neither a
\* chat-type event nor a disconnect notice leaves the reader in its read loop
\* at ReadPacket on the same connection, and changes neither the session
\* reference, nor any connection, nor the position of any other goroutine,
\* and writes nothing upstream.
C21_OtherPacketsNoTransition ==
    [][\A g \in Conns :
          (ReadsPacket(g) /\ ~ChatEvent(PacketRead(g))
              /\ PacketRead(g).Kind # "Disconnect")
             => /\ gpc[g] = "read" /\ gpc' = gpc
                /\ minecraftConn' = minecraftConn
                /\ gconn' = gconn /\ nconn' = nconn /\ connUp' = connUp
                /\ upLog' = upLog]_vars

\* C21 witness: the session's reader has received a system text and is at
\* ReadPacket on that connection, which is still the session.
C21_Witness ==
    \E g \in Conns :
        /\ pkLog[g] # <<>>
        /\ pkLog[g][Len(pkLog[g])].TextType = "system"
        /\ gpc[g] = "read"
        /\ connUp[g]
        /\ minecraftConn = g

\* C22: a call of the command variant with a session writes the command
\* request first; if that write succeeds it is the only write (no text
\* packet is written); if it is rejected exactly one more write follows,
\* of the text packet carrying the message, with the whisper subtype and the
\* target as its parameter for a directed message and the chat subtype and
\* no parameter otherwise; whether or not that write fails, none follows.
C22_FallbackOnce ==
    (fn = "sendChatToMinecraft" /\ arg.conn # Nil) =>
        /\ Len(ret) >= 1
        /\ ret[1].pkt.Kind = "CommandRequest"
        /\ ret[1].ok = ~arg.cmdErr
        /\ ~arg.cmdErr => Len(ret) = 1
        /\ arg.cmdErr =>
              /\ Len(ret) = 2
              /\ ret[2].ok = ~arg.textErr
              /\ ret[2].pkt.Kind = "Text"
              /\ ret[2].pkt.Message = arg.message
              /\ IF arg.target # "" /\ arg.target # "all"
                 THEN /\ ret[2].pkt.TextType = "whisper"
                      /\ ret[2].pkt.Parameters = <<arg.target>>
                 ELSE /\ ret[2].pkt.TextType = "chat"
                      /\ ret[2].pkt.Parameters = <<>>

\* C22 witness: a message directed to Steve whose command request and whose
\* text packet were both rejected: two writes, the second a whisper to Steve.
C22_Witness ==
    /\ fn = "sendChatToMinecraft"
    /\ arg.conn # Nil /\ arg.target = "Steve" /\ arg.cmdErr /\ arg.textErr
    /\ Len(ret) = 2
    /\ ~ret[1].ok /\ ~ret[2].ok
    /\ ret[2].pkt.TextType = "whisper"
    /\ ret[2].pkt.Parameters = <<"Steve">>

\* The process that is iterating over the registry map, if any.
Iterating(p) ==
    IF p[1] = "ws" THEN hpc[p[2]] = "echo_range" ELSE gpc[p[2]] = "bcast_range"

\* C23: a process is inside the range loop over the registry map exactly
\* while it holds the registry mutex, so at most one process iterates at a
\* time; and every step that changes the membership is either a handler's
\* insertion or deletion of its own key, made with the mutex taken from free
\* and released again, while no process iterates, or the deletion of the key
\* under iteration by the process that holds the mutex.
C23_RegistryMutex ==
    /\ [](/\ \A h \in Handlers : hpc[h] = "echo_range" <=> clientsMux = WS(h)
          /\ \A g \in Conns : gpc[g] = "bcast_range" <=> clientsMux = MC(g)
          /\ clientsMux = Free => (iterTodo = {} /\ iterCur = 0))
    /\ [][clients' # clients =>
            \/ /\ clientsMux = Free /\ clientsMux' = Free
               /\ \A h \in Handlers : hpc[h] # "echo_range"
               /\ \A g \in Conns : gpc[g] # "bcast_range"
               /\ \E h \in Handlers :
                     \/ hpc[h] = "register" /\ clients' = clients \cup {h}
                     \/ hpc[h] = "unregister" /\ clients' = clients \ {h}
            \/ /\ clientsMux # Free /\ clientsMux' = clientsMux
               /\ Iterating(clientsMux)
               /\ iterCur # 0
               /\ clients' = clients \ {iterCur}]_vars

\* C23 witness: a broadcast is in the middle of its range over two keys,
\* having deleted one, while a handler waits to unregister.
C23_Witness ==
    /\ clientsMux # Free
    /\ iterCur # 0
    /\ iterCur \in clients
    /\ \E c \in Handlers : c # iterCur /\ c \notin clients /\ closed[c]
                            /\ hpc[c] = "unregister"

\* The positions inside the loop of connectMinecraft.
ManagerPcs == {"dial", "altauth", "chain", "redial", "sleep", "install"}

\* The step is goroutine g's assignment `minecraftConn = conn`.
Assigns(g) == gpc[g] = "install" /\ gpc'[g] # "install"

\* C24: when a goroutine assigns the session reference no other goroutine is
\* running the loop of connectMinecraft (the loop that assigns it), and every
\* step that changes the session reference is such an assignment (a
\* websocket handler only reads it).
C24_SingleWriter ==
    [][/\ \A g \in Goroutines :
             Assigns(g) => \A g2 \in Goroutines \ {g} : gpc[g2] \notin ManagerPcs
       /\ minecraftConn' # minecraftConn => \E g \in Goroutines : Assigns(g)]_vars

\* s is t with some of its elements left out (the order is kept).
RECURSIVE IsSubSeq(_, _)
IsSubSeq(s, t) ==
    IF s = <<>> THEN TRUE
    ELSE IF t = <<>> THEN FALSE
    ELSE IF Head(s) = Head(t) THEN IsSubSeq(Tail(s), Tail(t))
    ELSE IsSubSeq(s, Tail(t))

\* The chat messages for the chat-type events among the packets pks, in order.
RECURSIVE ChatOf(_)
ChatOf(pks) ==
    IF pks = <<>> THEN <<>>
    ELSE IF ChatEvent(Head(pks)) THEN <<RelayedChat(Head(pks))>> \o ChatOf(Tail(pks))
    ELSE ChatOf(Tail(pks))

\* The chat messages client c has received, in order.
RECURSIVE ChatIn(_)
ChatIn(log) ==
    IF log = <<>> THEN <<>>
    ELSE IF Head(log).ok /\ Head(log).msg.Type = "chat"
         THEN <<Head(log).msg>> \o ChatIn(Tail(log))
    ELSE ChatIn(Tail(log))

\* C25: with one upstream connection and no chat from the clients, the chat
\* messages a client has received are, in the order it received them, chat
\* events read from the connection in the order they were read (with none
\* repeated or out of place; events from before it registered or after it
\* left are missing).
C25_UpstreamOrder ==
    \A c \in Handlers : \A g \in Conns :
        (nconn = g) => IsSubSeq(ChatIn(wsLog[c]), ChatOf(pkLog[g]))

\* C25 witness: "hello" from Steve and then "bye" from Alex were read from
\* the connection, and two clients have each received both, in that order.
C25_Witness ==
    /\ nconn = 1
    /\ Len(pkLog[1]) = 2
    /\ pkLog[1][1].Message = "hello" /\ pkLog[1][2].Message = "bye"
    /\ \A c \in Handlers :
          ChatIn(wsLog[c]) = << Message("chat", "hello", "Steve", ""),
                                Message("chat", "bye", "Alex", "") >>

\* C26: a goroutine in the delay after a failed attempt eventually starts
\* another attempt; the reader of a connection that is lost eventually starts
\* an attempt; and a connection that a dial has returned eventually becomes
\* the session, with its read loop started.
C26_NeverGivesUp ==
    /\ \A g \in Goroutines : (gpc[g] = "sleep") ~> (gpc[g] = "dial")
    /\ \A c \in Conns : (gpc[c] \in ReadLoopPcs /\ ~connUp[c]) ~> (gpc[c] = "dial")
    /\ \A g \in Goroutines : \A c \in Conns :
          (gpc[g] = "install" /\ gconn[g] = c)
             ~> (minecraftConn = c /\ gpc[c] \in ReadLoopPcs)

\* C26 witness: the goroutine that read connection 1 has lost it, has started
\* another attempt and holds the connection its dial returned.
C26_Witness ==
    \E c \in Conns :
        /\ ~connUp[c]
        /\ gpc[c] = "install"
        /\ gconn[c] # Nil /\ gconn[c] # c

\* The step is the handling of an error of normal operation: a dial or the
\* second dial fails, a step of the custom authentication fails, ReadPacket
\* returns an error, a WritePacket on the session fails, ReadJSON returns an
\* error, or a WriteJSON on a websocket fails.
ErrorStep ==
    \/ \E g \in Goroutines :
          \/ gpc[g] = "dial" /\ gpc'[g] \in {"altauth", "sleep"}
          \/ gpc[g] \in AltPathPcs /\ gpc'[g] = "sleep"
          \/ gpc[g] = "read" /\ gpc'[g] \notin ReadLoopPcs
    \/ Len(upLog') > Len(upLog) /\ ~upLog'[Len(upLog')].ok
    \/ \E h \in Handlers :
          \/ hpc[h] = "read" /\ hpc'[h] = "unregister"
          \/ Len(wsLog'[h]) > Len(wsLog[h]) /\ ~wsLog'[h][Len(wsLog'[h])].ok

HandlerLoopPcs == {"read", "send", "write", "echo", "echo_range"}

\* C28: when the process has ended on the shutdown signal, no read loop is
\* left running (neither a websocket handler's nor an upstream reader's, the
\* session being closed), and every registered client handle is closed.
C28_ShutdownCloses ==
    exit = "signal" =>
        /\ \A h \in Handlers : hpc[h] \notin HandlerLoopPcs
        /\ ReadLoops = {}
        /\ \A h \in clients : closed[h]

\* C29: when a handler's ReadJSON returns a message, either the message is
\* of type "chat" and that handler goes on to forward it, or every handler
\* is where it was (the reader back at ReadJSON) and the step has changed
\* neither the registry (the sender stays registered), nor a websocket (no
\* broadcast, no reply), nor anything upstream (no write, the same session).
C29_UnknownTypeIgnored ==
    [][nmsgs' # nmsgs =>
          \/ \E h \in Handlers :
                /\ hpc[h] = "read" /\ hpc'[h] = "send"
                /\ hmsg'[h].Type = "chat"
          \/ /\ hpc' = hpc /\ hmsg' = hmsg
             /\ clients' = clients /\ clientsMux' = clientsMux
             /\ wsLog' = wsLog /\ closed' = closed
             /\ upLog' = upLog /\ minecraftConn' = minecraftConn
             /\ gpc' = gpc /\ connUp' = connUp /\ nconn' = nconn]_vars

\* C29 witness: with a session, a registered client has sent a message that
\* is not of type "chat": it is back at ReadJSON, still registered, nothing
\* was written upstream and no websocket was written a broadcast.
C29_Witness ==
    /\ nmsgs = 1
    /\ minecraftConn # Nil
    /\ upLog = <<>>
    /\ \A h \in Handlers : ~InChat(h)
    /\ \A c \in Handlers : \A i \in 1..Len(wsLog[c]) : ~BroadcastRecord(wsLog[c][i])
    /\ \E h \in clients : hpc[h] = "read" /\ ~closed[h]

\* C30: a chat message handed to sendChatToMinecraft while no upstream
\* connection is connected is dropped there: the call returns without going
\* on to a WritePacket for it, so that nothing of it is left to be written on
\* a connection made later; and no message of an error kind is ever written
\* to a client.
C30_DroppedWhenDown ==
    /\ [](\A c \in Handlers : \A i \in 1..Len(wsLog[c]) :
             wsLog[c][i].msg.Type # "error")
    /\ [][\A h \in Handlers :
            (hpc[h] = "send" /\ hpc'[h] # "send" /\ ReadLoops = {})
               => (hpc'[h] = "echo" /\ hmsg'[h] = hmsg[h])]_vars

\* C31: at most one goroutine is inside a write to a given client websocket
\* at any time: the welcome write of handleConnections, made after the
\* registry mutex is released, never overlaps a broadcast write (of the
\* upstream reader or of another client's echo) to that websocket.
C31_SingleWriter ==
    \A c \in Handlers : Cardinality(Writers(c)) <= 1

\* C32: in the program text whose read loop clears the session reference,
\* sendChatToMinecraft never calls WritePacket through a nil session
\* reference: whatever the upstream goroutine does between the nil check, the
\* command write and the fallback text write, each write is made on a
\* connection.
C32_NoNilWrite ==
    \A i \in 1..Len(upLog) : upLog[i].conn # Nil

\* The goroutine that read connection c is past its read loop and past the
\* deferred clean-up: it is at, or beyond, the next connection attempt.
Reconnecting(c) ==
    gpc[c] \in {"resleep", "dial", "altauth", "chain", "redial", "sleep", "install", "ended"}

\* C33: once the read loop of an upstream connection has ended and the next
\* connection attempt is under way, that connection has been closed and the
\* session reference does not point to it: no connection whose read loop has
\* ended is left open or left installed as the current session.
C33_EndedConnectionReleased ==
    \A c \in Conns :
        Reconnecting(c) => (c \in connClosed /\ minecraftConn # c)

\* The packets that encode a chat message a client may submit: the text
\* packet of the current sender, and the command request and the fallback
\* text packet of the command variant.
ClientEncodings ==
    {sendChatPacket(m.Message, m.Target) : m \in ClientInputs}
    \cup {CommandRequest(commandStr(m.Message, m.Target)) : m \in EarlierInputs}
    \cup {FallbackText(FallbackTextType(m.Target), m.Message, FallbackParameters(m.Target)) :
             m \in EarlierInputs}

\* C34: every packet the relay writes to the upstream link is the encoding
\* of a chat message submitted by a client; no packet read from the upstream
\* link is written back to it.
C34_OnlyClientChatUpstream ==
    \A i \in 1..Len(upLog) :
        /\ upLog[i].pkt \in ClientEncodings
        /\ \A c \in Conns : \A j \in 1..Len(pkLog[c]) : upLog[i].pkt # pkLog[c][j]

\* C35: GetXBL3Token never returns an empty token together with a nil error:
\* when the script fails or prints nothing on stdout the returned error is
\* not nil, and a nil error comes with a token that is not empty.
C35_NoEmptyTokenWithoutError ==
    fn = "GetXBL3Token" =>
        /\ (arg.runErr # NoErr \/ arg.stdout = <<>>) => ret.err # NoErr
        /\ ret.err = NoErr => ret.token # <<>>

====
